---- MODULE Spec2Model ----
(***************************************************************************)
(* A model of the document generation pipeline of scholarforge-ai:         *)
(* generateDocument (server/services/documentGeneration.ts), the job and   *)
(* document store it writes (server/db.ts) and the generation.cancel       *)
(* procedure (server/routers.ts).                                          *)
(*                                                                         *)
(* Text is modelled as a sequence of tokens.  A token is a record whose    *)
(* field t names its kind: a word, a bracketed number "[n]", a key marker  *)
(* "[refn]", a heading line, a rendered citation, a figure or table block, *)
(* a reference entry.                                                      *)
(***************************************************************************)
EXTENDS Integers, Sequences, FiniteSets, TLC

\* ------------------------------------------------------------------ bounds
\* Largest requested reference, figure and table counts that are explored.
MaxRefs == 2
MaxFigures == 2
MaxTables == 2
\* Number of cancel requests that may be issued against the job.
MaxCancels == 2

\* ------------------------------------------------------------- sequences
RECURSIVE SeqMap(_, _)
SeqMap(F(_), s) == IF s = <<>> THEN <<>> ELSE <<F(Head(s))>> \o SeqMap(F, Tail(s))

RECURSIVE SeqFilter(_, _)
SeqFilter(P(_), s) ==
    IF s = <<>> THEN <<>>
    ELSE (IF P(Head(s)) THEN <<Head(s)>> ELSE <<>>) \o SeqFilter(P, Tail(s))

RECURSIVE Flatten(_)
Flatten(ss) == IF ss = <<>> THEN <<>> ELSE Head(ss) \o Flatten(Tail(ss))

Range(s) == {s[i] : i \in 1..Len(s)}

Take(s, n) == SubSeq(s, 1, IF n < Len(s) THEN n ELSE Len(s))

Max(a, b) == IF a > b THEN a ELSE b
Min(a, b) == IF a < b THEN a ELSE b

\* Math.round(a / b) for a >= 0, b > 0: halves round up.
RoundDiv(a, b) == (2 * a + b) \div (2 * b)

\* ---------------------------------------------------------------- tokens
W == [t |-> "w"]
Tag == [t |-> "tag"]
Num(n) == [t |-> "num", n |-> n]
Ref(n) == [t |-> "ref", n |-> n]
\* A markdown heading line "## name".
H2(name) == [t |-> "h2", name |-> name]
\* A line that consists of a section title, such as "Abstract:".
TitleLine(name) == [t |-> "title", name |-> name]

Undefined == -1
CurrentYear == 2026

\* -------------------------------------------------------------- pipeline
Phases == <<
    [name |-> "Literature Review", weight |-> 15, progress |-> 0],
    [name |-> "Novelty Assessment", weight |-> 10, progress |-> 15],
    [name |-> "Argument Architecture", weight |-> 15, progress |-> 25],
    [name |-> "Section Writing", weight |-> 40, progress |-> 40],
    [name |-> "Figure Generation", weight |-> 10, progress |-> 70],
    [name |-> "Internal Review", weight |-> 5, progress |-> 80],
    [name |-> "Final Assembly", weight |-> 5, progress |-> 90] >>

NumPhases == Len(Phases)

sections == <<"Abstract", "Introduction", "Literature Review", "Methodology",
              "Results", "Discussion", "Conclusion">>

NumSections == Len(sections)

DbError == "Database not available"
\* The message of the error invokeLLM throws for a response of status 400.
LlmError == "LLM invoke failed: Error: LLM invoke failed: 400 (hint)"
NullPlanError == "Cannot read properties of null (reading 'figures')"
NullScoreError == "Cannot read properties of null (reading 'score')"
CancelMessage == "Cancelled by user"

Owner == "owner"
Users == {Owner, "other"}

VARIABLES
    params,     \* the GenerationParams of the run
    job,        \* the generation_jobs row of the run
    db,         \* the documents, authors, citations, figures and tables rows
    ph,         \* index of the phase being executed
    pc,         \* the await point the run is suspended at
    sec,        \* number of sections written so far
    ctx,        \* the GenerationContext
    fullContent,\* the content assembled by Final Assembly
    documentId, \* the id returned by createDocument (0: none yet)
    error,      \* message of the Error caught by the outer catch ("" : none)
    cancel,     \* per cancel request: where the procedure stands
    started,    \* history: names of the phases whose execute was called
    active,     \* history: indexes of the phases called and not yet settled
    thrown,     \* history: phase and message of the error a phase threw
    cancelled,  \* history: a cancel request has written the job
    lastWriter, \* history: who wrote the job row last
    termWrite,  \* history: the terminal write of the run
    calc,       \* a function of the pipeline applied on its own: input, output
    gw,         \* an invokeLLM call: request, environment, position, outcome
    rev,        \* a RevisionRequest and the processRevisionRequest run on it
    lit,        \* the literature client: clock, cache, queue and its requests
    concurrent  \* runs side by side: their requests, positions and contexts

runVars == <<ph, pc, sec, ctx, fullContent, documentId, error>>
histVars == <<started, active, thrown, cancelled, lastWriter, termWrite>>
vars == <<params, job, db, ph, pc, sec, ctx, fullContent, documentId, error,
          cancel, started, active, thrown, cancelled, lastWriter, termWrite,
          calc, gw, rev, lit, concurrent>>

\* The variables of a pipeline run and of the cancel requests against it.
jobVars == <<params, job, db, ph, pc, sec, ctx, fullContent, documentId, error,
             cancel, started, active, thrown, cancelled, lastWriter, termWrite>>

NoThrow == [phase |-> "", message |-> ""]

EmptyContext == [
    citations |-> <<>>,
    outline |-> "",
    sections |-> <<>>,
    figurePlans |-> <<>>,
    tablePlans |-> <<>>,
    noveltyScore |-> Undefined,
    qualityScore |-> Undefined ]

EmptyDb == [documents |-> <<>>, authors |-> <<>>, citations |-> <<>>,
            figures |-> <<>>, tables |-> <<>>]

\* No function is being applied on its own.
NoCall == [fn |-> "none"]

\* invokeLLM is not being called on its own.
NoInvoke == [pc |-> "none"]

\* No revision has been requested.
NoRevision == [pc |-> "none"]
NoLiterature == [pc |-> "none"]
NoConcurrent == [pc |-> "none"]

QueuedJob == [
    status |-> "queued",
    currentPhase |-> "",
    progressPercentage |-> 0,
    estimatedTimeRemaining |-> Undefined,
    errorMessage |-> "",
    noveltyScore |-> Undefined,
    qualityScore |-> Undefined,
    completedAt |-> FALSE ]

\* Mutant of updateProgress: the status is left as it is.
updateProgress_noStatus(j, phase, percentage) ==
    [j EXCEPT !.currentPhase = phase,
              !.progressPercentage = percentage,
              !.estimatedTimeRemaining = RoundDiv(100 - percentage, 10)]

\* db.updateGenerationJobProgress as called by updateProgress: the fields
\* given are merged into the row, the others are left as they are.
updateProgress(j, phase, percentage) ==
    [j EXCEPT !.status = "processing",
              !.currentPhase = phase,
              !.progressPercentage = percentage,
              !.estimatedTimeRemaining = RoundDiv(100 - percentage, 10)]

\* Mutant of completeGenerationJob: a row in a terminal status is not written.
completeGenerationJob_keepsTerminal(j, data) ==
    IF j.status \in {"completed", "failed"} THEN j
    ELSE [j EXCEPT !.status = data.status,
                   !.errorMessage =
                       IF data.errorMessage = "" THEN @ ELSE data.errorMessage,
                   !.completedAt = TRUE,
                   !.progressPercentage = 100]

\* db.completeGenerationJob: an undefined field of data is not written.
completeGenerationJob(j, data) ==
    [j EXCEPT !.status = data.status,
              !.noveltyScore =
                  IF data.noveltyScore = Undefined THEN @ ELSE data.noveltyScore,
              !.qualityScore =
                  IF data.qualityScore = Undefined THEN @ ELSE data.qualityScore,
              !.errorMessage =
                  IF data.errorMessage = "" THEN @ ELSE data.errorMessage,
              !.completedAt = TRUE,
              !.progressPercentage = 100]

FailedData(message) == [status |-> "failed", noveltyScore |-> Undefined,
                        qualityScore |-> Undefined, errorMessage |-> message]

CompletedData(c) == [status |-> "completed", noveltyScore |-> c.noveltyScore,
                     qualityScore |-> c.qualityScore, errorMessage |-> ""]

\* Mutant of WrapPhaseError: the phase name is not put in front.
WrapPhaseError_noPrefix(name, message) == message

\* The inner catch of the phase loop: new Error(`[${phase.name}] ${message}`).
WrapPhaseError(name, message) == "[" \o name \o "] " \o message


\* ------------------------------------------------- literature and citations
Missing == "<undefined>"

Paper(i) == [paperId |-> <<"p", i>>, title |-> <<"Paper", i>>, year |-> 2020 + i,
             authors |-> IF i = 1 THEN << <<"A.", "Author">> >>
                         ELSE IF i = 2 THEN << <<"B.", "Lee">>, <<"C.", "Kim">> >>
                         ELSE << <<"D.", "Roe">>, <<"E.", "Poe">>, <<"F.", "Doe">> >>]

\* A record of the search result that carries no paperId.
PaperNoId == [Paper(1) EXCEPT !.paperId = <<>>]

Placeholder(i, why) ==
    [paperId |-> <<"placeholder", i>>,
     title |-> <<"Placeholder reference", i, why>>,
     year |-> CurrentYear,
     authors |-> << <<"Unknown">> >>]

\* Math.max(0, n || 0) for the optional count n.
Requested(n) == IF n = Undefined THEN 0 ELSE Max(0, n)

\* The Map keyed by paperId of the Literature Review phase: records without a
\* paperId are skipped and the first record of each paperId is kept.
RECURSIVE UniqueByPaperId(_, _)
UniqueByPaperId(all, seen) ==
    IF all = <<>> THEN <<>>
    ELSE LET p == Head(all) IN
         IF p.paperId = <<>> \/ p.paperId \in seen
         THEN UniqueByPaperId(Tail(all), seen)
         ELSE <<p>> \o UniqueByPaperId(Tail(all), seen \cup {p.paperId})

\* Mutant of PadLiterature: a short result is not padded.
PadLiterature_noPadding(literature, requested) == literature

\* while (ctx.literature.length < requested) push(placeholder).
RECURSIVE PadLiterature(_, _)
PadLiterature(literature, requested) ==
    IF Len(literature) >= requested THEN literature
    ELSE PadLiterature(
             Append(literature,
                    Placeholder(Len(literature) + 1, "insufficient Semantic Scholar results")),
             requested)

CitationKey(n) == <<"ref", n>>

\* Mutant of BindCitations: keys count from zero.
BindCitations_fromZero(literature) ==
    [i \in 1..Len(literature) |->
        [paper |-> literature[i], citationKey |-> CitationKey(i - 1)]]

\* ctx.citations = ctx.literature.map((paper, index) => ...).
BindCitations(literature) ==
    [i \in 1..Len(literature) |->
        [paper |-> literature[i], citationKey |-> CitationKey(i)]]

\* The citations bound by the Literature Review phase for one outcome of
\* extractKeyPapers: the three buckets, or a thrown error (ok = FALSE).
LiteratureCitations(outcome, requested) ==
    IF outcome.ok
    THEN LET all == outcome.foundational \o outcome.recent \o outcome.highImpact
             unique == UniqueByPaperId(all, {})
         IN BindCitations(PadLiterature(Take(unique, requested), requested))
    ELSE [i \in 1..requested |->
             [paper |-> Placeholder(i, "Semantic Scholar unavailable"),
              citationKey |-> CitationKey(i)]]

\* ------------------------------------------------------ text normalization
IsHeadingLine(tok) == tok.t \in {"h2", "numbered"}

IsOwnTitle(tok, section) ==
    tok.t \in {"title", "numbered"} /\ tok.name = section

RECURSIVE DropWhile(_, _)
DropWhile(P(_), s) ==
    IF s = <<>> THEN <<>>
    ELSE IF P(Head(s)) THEN DropWhile(P, Tail(s)) ELSE s

stripLeadingSectionTitle(markdown, section) ==
    LET Own(tok) == IsOwnTitle(tok, section) IN DropWhile(Own, markdown)

stripLeadingHeadings(markdown) == DropWhile(IsHeadingLine, markdown)

\* The largest number the pattern \[(\d{1,3})\] matches.
ThreeDigits == 999

\* Mutant of normalizeCitationKeys: a number above maxRef is brought down to
\* the last key, as a number.
normalizeCitationKeys_clamping(markdown, maxRef) ==
    IF maxRef <= 0 THEN markdown
    ELSE LET Key(tok) == IF tok.t = "num" /\ tok.n <= ThreeDigits /\ tok.n >= 1
                         THEN IF tok.n <= maxRef THEN Ref(tok.n) ELSE Num(maxRef)
                         ELSE tok
         IN SeqMap(Key, markdown)

\* [n] -> [refn] for 1 <= n <= maxRef; Num(n) is n written in decimal without
\* leading zeros, and the pattern matches numbers of one to three digits.
normalizeCitationKeys(markdown, maxRef) ==
    IF maxRef <= 0 THEN markdown
    ELSE LET Key(tok) == IF /\ tok.t = "num"
                            /\ tok.n <= ThreeDigits
                            /\ tok.n >= 1 /\ tok.n <= maxRef
                         THEN Ref(tok.n) ELSE tok
         IN SeqMap(Key, markdown)

NameWords(name) == IF name = "Literature Review" THEN 2 ELSE 1

TokenWords(tok) == IF tok.t \in {"h2", "title", "numbered"}
                   THEN 1 + NameWords(tok.name) ELSE 1

RECURSIVE computeWordCount(_)
computeWordCount(text) ==
    IF text = <<>> THEN 0 ELSE TokenWords(Head(text)) + computeWordCount(Tail(text))

\* The fallback body of a section (no abstract was provided).
defaultSection == <<W, W>>

\* The derivation block put in front of the Methodology section of a quartic
\* oscillator topic, unless the body already carries tagged equations.
ensureMathDerivation(section, markdown, p, maxRefCount) ==
    IF markdown = <<>> THEN markdown
    ELSE IF \E i \in 1..Len(markdown) : markdown[i] = Tag THEN markdown
    ELSE IF section = "Methodology" /\ p.quartic
         THEN <<W, Tag>> \o (IF maxRefCount > 0 THEN <<Ref(1)>> ELSE <<>>) \o markdown
         ELSE markdown

\* The body the Section Writing phase stores for one model reply.
SectionBody(section, content, p, maxRef) ==
    LET raw == IF content # <<>> THEN content ELSE defaultSection
        cleaned == normalizeCitationKeys(
                       stripLeadingHeadings(stripLeadingSectionTitle(raw, section)),
                       maxRef)
    IN IF cleaned # <<>> THEN ensureMathDerivation(section, cleaned, p, maxRef)
       ELSE defaultSection

\* --------------------------------------------------------- style rendering
lastNameFromAuthor(authorName) ==
    IF authorName = <<>> THEN "Unknown" ELSE authorName[Len(authorName)]

AuthorLabel(paper) ==
    LET names == paper.authors IN
    IF Len(names) = 0 THEN <<"Unknown">>
    ELSE IF Len(names) = 1 THEN <<lastNameFromAuthor(names[1])>>
    ELSE IF Len(names) = 2
         THEN <<lastNameFromAuthor(names[1]), "&", lastNameFromAuthor(names[2])>>
    ELSE <<lastNameFromAuthor(names[1]), "et al.">>

\* year 0 stands for "n.d."; MLA9 prints no year.
inTextCitationForPaper(paper, style) ==
    IF style = "MLA9" THEN [author |-> AuthorLabel(paper)]
    ELSE [author |-> AuthorLabel(paper), year |-> paper.year]

UnknownCitation == [author |-> <<"Unknown">>, year |-> 0]

\* The characters of an in-text citation, in pieces: "(", the author label,
\* for styles other than MLA9 "," and the year or "n.d.", and ")".
CitationText(part) ==
    <<"(">> \o part.author
    \o (IF "year" \in DOMAIN part
        THEN <<",", IF part.year = 0 THEN "n.d." ELSE ToString(part.year)>>
        ELSE <<>>)
    \o <<")">>

RECURSIVE JoinWith(_, _)
JoinWith(pieces, separator) ==
    IF pieces = <<>> THEN <<>>
    ELSE IF Len(pieces) = 1 THEN Head(pieces)
    ELSE Head(pieces) \o <<separator>> \o JoinWith(Tail(pieces), separator)

\* Mutant of StripParens: the parentheses of an entry are kept.
StripParens_kept(text) == text

\* p.replace(/^\(|\)$/g, ""): the opening parenthesis at the front and the
\* closing one at the end are removed.
StripParens(text) ==
    LET front == IF text # <<>> /\ Head(text) = "(" THEN Tail(text) ELSE text
    IN IF front # <<>> /\ front[Len(front)] = ")"
       THEN SubSeq(front, 1, Len(front) - 1) ELSE front

\* One entry is returned as it is; several are joined by ";" inside one pair
\* of parentheses.
JoinParts(texts) ==
    IF Len(texts) = 1 THEN texts[1]
    ELSE <<"(">> \o JoinWith(SeqMap(StripParens, texts), ";") \o <<")">>

IsIEEE(style) == style \in {"IEEE", "ieee"}

RECURSIVE UniqueInOrder(_, _)
UniqueInOrder(s, seen) ==
    IF s = <<>> THEN <<>>
    ELSE IF Head(s) \in seen THEN UniqueInOrder(Tail(s), seen)
    ELSE <<Head(s)>> \o UniqueInOrder(Tail(s), seen \cup {Head(s)})

\* What one run of adjacent [refN] markers is replaced by.
RenderRun(run, citations, style) ==
    LET refs == SeqFilter(LAMBDA n : n > 0, SeqMap(LAMBDA tok : tok.n, run))
        uniqueRefs == UniqueInOrder(refs, {})
        Bound(r) == \E i \in 1..Len(citations) : citations[i].citationKey = CitationKey(r)
        PaperOf(r) == citations[CHOOSE i \in 1..Len(citations) :
                                    /\ citations[i].citationKey = CitationKey(r)
                                    /\ \A k \in (i + 1)..Len(citations) :
                                           citations[k].citationKey # CitationKey(r)].paper
        Part(r) == IF Bound(r) THEN inTextCitationForPaper(PaperOf(r), style)
                   ELSE UnknownCitation
    IN IF refs = <<>> THEN run
       ELSE IF IsIEEE(style)
            THEN << [t |-> "cite", form |-> "numeric", refs |-> uniqueRefs,
                     text |-> <<"[">>
                              \o JoinWith(SeqMap(LAMBDA n : <<ToString(n)>>, uniqueRefs), ",")
                              \o <<"]">>] >>
            ELSE << [t |-> "cite", form |-> "paren", refs |-> uniqueRefs,
                     parts |-> SeqMap(Part, uniqueRefs),
                     text |-> JoinParts(SeqMap(LAMBDA r : CitationText(Part(r)),
                                               uniqueRefs))] >>

RECURSIVE RefRunLength(_)
RefRunLength(s) ==
    IF s = <<>> \/ Head(s).t # "ref" THEN 0 ELSE 1 + RefRunLength(Tail(s))

RECURSIVE applyCitationStyleToBody(_, _, _)
applyCitationStyleToBody(markdown, citations, style) ==
    IF markdown = <<>> THEN <<>>
    ELSE LET k == RefRunLength(markdown) IN
         IF k = 0
         THEN <<Head(markdown)>> \o applyCitationStyleToBody(Tail(markdown), citations, style)
         ELSE RenderRun(SubSeq(markdown, 1, k), citations, style)
              \o applyCitationStyleToBody(SubSeq(markdown, k + 1, Len(markdown)),
                                          citations, style)

\* ------------------------------------------------------------------ blocks
formatCitation(paper, style) ==
    [form |-> IF style \in {"APA7", "MLA9", "Chicago", "IEEE"} THEN style ELSE "APA7",
     authors |-> paper.authors, year |-> paper.year, title |-> paper.title]

buildReferencesSection(citations, style) ==
    IF Len(citations) = 0 THEN <<H2("References"), [t |-> "norefs"]>>
    ELSE <<H2("References")>> \o
         [i \in 1..Len(citations) |->
             [t |-> "refentry",
              number |-> IF IsIEEE(style) THEN i ELSE 0,
              text |-> formatCitation(citations[i].paper, style)]]

buildFiguresMarkdown(plans) ==
    IF Len(plans) = 0 THEN <<>>
    ELSE <<H2("Figures")>> \o
         [i \in 1..Len(plans) |->
             [t |-> "h3", number |-> plans[i].figureNumber, caption |-> plans[i].caption]]

buildTablesMarkdown(plans) ==
    IF Len(plans) = 0 THEN <<>>
    ELSE <<H2("Tables")>> \o
         [i \in 1..Len(plans) |->
             [t |-> "h3", number |-> plans[i].tableNumber, caption |-> plans[i].caption]]

\* The plans the Figure Generation phase derives from the parsed model reply.
\* parsed.figures?.[i] ?? {} is the empty object for a missing list and for a
\* list that is too short alike, so a missing list is kept as the empty list;
\* a missing text field of an entry is Missing, a missing or empty columns or
\* rows array is the empty sequence.
PlanEntry(list, i) ==
    IF i <= Len(list) THEN list[i]
    ELSE [figureType |-> Missing, caption |-> Missing, altText |-> Missing,
          columns |-> <<>>, rows |-> <<>>]

Field(value, fallback) == IF value # Missing THEN value ELSE fallback

\* Mutant of FigurePlans: one plan per figure the model returned.
FigurePlans_asReturned(parsed, numFigures) ==
    [i \in 1..Len(parsed.figures) |->
        [figureNumber |-> <<"Figure", i>>,
         figureType |-> Field(parsed.figures[i].figureType, "figure"),
         caption |-> Field(parsed.figures[i].caption, "Planned figure"),
         altText |-> Field(parsed.figures[i].altText, "Figure")]]

FigurePlans(parsed, numFigures) ==
    [i \in 1..numFigures |->
        LET entry == PlanEntry(parsed.figures, i) IN
        [figureNumber |-> <<"Figure", i>>,
         figureType |-> Field(entry.figureType, "figure"),
         caption |-> Field(entry.caption, "Planned figure"),
         altText |-> Field(entry.altText, "Figure")]]

TablePlans(parsed, numTables) ==
    [i \in 1..numTables |->
        LET entry == PlanEntry(parsed.tables, i) IN
        [tableNumber |-> <<"Table", i>>,
         caption |-> Field(entry.caption, "Planned table"),
         columns |-> IF Len(entry.columns) > 0 THEN entry.columns
                     ELSE <<"Metric", "Value">>,
         rows |-> IF Len(entry.rows) > 0 THEN entry.rows
                  ELSE << <<"Example", "1">> >>]]

\* safeJsonParse of the plan reply: "garbage" is no JSON (the fallback {} is
\* used), "object" carries the figures and tables lists; "null", the JSON
\* value null, makes the read of parsed.figures throw (see FigureGeneration).
ParsePlan(reply) ==
    IF reply.kind = "object" THEN [figures |-> reply.figures, tables |-> reply.tables]
    ELSE [figures |-> <<>>, tables |-> <<>>]

\* clampNumber over the score of a parsed reply.
clampNumber(value, fallback, min, max) ==
    IF value = Undefined THEN fallback ELSE Min(max, Max(min, value))

\* Scores are kept in hundredths for novelty (0.6 is 60) and as is for quality.
ReplyScore(reply) == IF reply.kind = "object" THEN reply.score ELSE Undefined

noveltyClassification(score) ==
    IF score # Undefined /\ score # 0 /\ score >= 80 THEN "substantial"
    ELSE IF score # Undefined /\ score # 0 /\ score >= 60 THEN "moderate"
    ELSE "incremental"


\* ------------------------------------------------------- phase sequencing
\* for (const phase of phases): the phase called after phase i has settled.
NextPhase(i) == i + 1

\* Mutant of Settled: the loop does not wait for the phase it called.
Settled_noAwait(act, i) == act

\* await phase.execute(context): phase i has settled before the loop goes on.
Settled(act, i) == act \ {i}

\* The phase being executed returns: the loop calls the next phase, or ends.
EndPhase ==
    IF NextPhase(ph) <= NumPhases
    THEN /\ ph' = NextPhase(ph)
         /\ pc' = "progress"
         /\ started' = Append(started, Phases[NextPhase(ph)].name)
         /\ active' = Settled(active, ph) \cup {NextPhase(ph)}
    ELSE /\ ph' = ph
         /\ pc' = "done"
         /\ started' = started
         /\ active' = Settled(active, ph)

\* The phase being executed throws message m: the inner catch wraps it and the
\* outer catch receives it.  The context is not read again after a throw.
Throw(m) ==
    /\ thrown' = [phase |-> Phases[ph].name, message |-> m]
    /\ error' = WrapPhaseError(Phases[ph].name, m)
    /\ pc' = "catch"
    /\ active' = Settled(active, ph)
    /\ ctx' = EmptyContext
    /\ fullContent' = <<>>
    /\ sec' = 0
    /\ documentId' = 0
    /\ UNCHANGED <<ph, started>>

\* Final Assembly: the body of the seven sections under single headings.
AssembleBody(c, maxRef) ==
    Flatten([i \in 1..NumSections |->
        <<H2(sections[i])>> \o
        normalizeCitationKeys(
            stripLeadingHeadings(stripLeadingSectionTitle(c.sections[i], sections[i])),
            maxRef)])

\* The largest power of two that is at most v, for v >= 1.
RECURSIVE Pow2Below(_)
Pow2Below(v) == IF v < 2 THEN 1 ELSE 2 * Pow2Below(v \div 2)

\* Math.floor(target * 0.9) in double arithmetic: the double 0.9 lies above
\* 0.9 by less than 2^-54, which never carries the product over an integer.
FloorLower(target) == (9 * target) \div 10

\* Math.ceil(target * 1.1) in double arithmetic: the double 1.1 lies above 1.1
\* by 0.8 * 2^-53, so for target = 10 m the exact product is 11 m + m * 2^-50;
\* it rounds to the double above 11 m when that excess is more than half the
\* spacing of doubles at 11 m (a tie rounds to 11 m), and the ceiling is then
\* 11 m + 1.
CeilUpper(target) ==
    IF target % 10 = 0 /\ 8 * (target \div 10) > Pow2Below(11 * (target \div 10))
    THEN 11 * (target \div 10) + 1
    ELSE (11 * target + 9) \div 10

\* adjustBodyToTargetWordCount asks the model for a rewrite.
NeedsRewrite(bodyMarkdown, p) ==
    /\ p.enforceWordCount
    /\ p.targetWordCount > 0
    /\ LET current == computeWordCount(bodyMarkdown)
           lower == FloorLower(p.targetWordCount)
           upper == CeilUpper(p.targetWordCount)
       IN ~(current >= lower /\ current <= upper)

AdjustedBody(bodyMarkdown, reply, maxRef) ==
    normalizeCitationKeys(IF reply # <<>> THEN reply ELSE bodyMarkdown, maxRef)

FullContent(adjustedBody, c, p) ==
    applyCitationStyleToBody(adjustedBody, c.citations, p.citationStyle)
    \o buildFiguresMarkdown(c.figurePlans)
    \o buildTablesMarkdown(c.tablePlans)
    \o buildReferencesSection(c.citations, p.citationStyle)

\* The step of the run that is an LLM call which may throw.
CallsModel ==
    \/ pc = "secCall"
    \/ pc = "call" /\ ph \in {2, 3, 6}
    \/ pc = "call" /\ ph = 5
          /\ ~(Requested(params.numFigures) = 0 /\ Requested(params.numTables) = 0)
    \/ pc = "assemble" /\ NeedsRewrite(AssembleBody(ctx, Len(ctx.citations)), params)

\* The step of the run that is a store call.
CallsStore ==
    pc \in {"progress", "secProgress", "createDocument", "createAuthors",
            "createCitations", "createFigures", "createTables", "complete"}

\* ----------------------------------------------------------------- actions
Init(S) ==
    /\ params \in S.params
    /\ job = QueuedJob
    /\ db = EmptyDb
    /\ ph = 1
    /\ pc = "progress"
    /\ sec = 0
    /\ ctx = EmptyContext
    /\ fullContent = <<>>
    /\ documentId = 0
    /\ error = ""
    /\ cancel = [c \in 1..MaxCancels |-> "idle"]
    /\ started = <<Phases[1].name>>
    /\ active = {1}
    /\ thrown = NoThrow
    /\ cancelled = FALSE
    /\ lastWriter = "none"
    /\ termWrite = "none"
    /\ calc = NoCall
    /\ gw = NoInvoke
    /\ rev = NoRevision
    /\ lit = NoLiterature
    /\ concurrent = NoConcurrent

\* Mutant of UpdateProgress: a run whose job was written failed stops.
UpdateProgress_stopsWhenFailed ==
    /\ pc = "progress"
    /\ IF job.status = "failed"
       THEN pc' = "done" /\ UNCHANGED <<job, lastWriter>>
       ELSE /\ job' = updateProgress(job, Phases[ph].name, Phases[ph].progress)
            /\ pc' = IF ph = 4 THEN "secProgress" ELSE IF ph = 7 THEN "assemble" ELSE "call"
            /\ lastWriter' = "pipeline"
    /\ UNCHANGED <<calc, gw, rev, lit, concurrent, params, db, ph, sec, ctx, fullContent, documentId, error, cancel,
                   started, active, thrown, cancelled, termWrite>>

\* updateProgress at the start of a phase.
UpdateProgress ==
    /\ pc = "progress"
    /\ job' = updateProgress(job, Phases[ph].name, Phases[ph].progress)
    /\ pc' = IF ph = 4 THEN "secProgress" ELSE IF ph = 7 THEN "assemble" ELSE "call"
    /\ lastWriter' = "pipeline"
    /\ UNCHANGED <<calc, gw, rev, lit, concurrent, params, db, ph, sec, ctx, fullContent, documentId, error, cancel,
                   started, active, thrown, cancelled, termWrite>>

LiteratureReview(S) ==
    /\ pc = "call" /\ ph = 1
    /\ \E outcome \in S.literature :
           ctx' = [ctx EXCEPT !.citations =
                       LiteratureCitations(outcome, Requested(params.numReferences))]
    /\ EndPhase
    /\ UNCHANGED <<calc, gw, rev, lit, concurrent, params, job, db, sec, fullContent, documentId, error, cancel,
                   thrown, cancelled, lastWriter, termWrite>>

\* The reply "null" parses to null and assessment.score throws.
NoveltyAssessment(S) ==
    /\ pc = "call" /\ ph = 2
    /\ \E reply \in S.novelty :
           IF reply.kind = "null"
           THEN Throw(NullScoreError)
           ELSE /\ ctx' = [ctx EXCEPT !.noveltyScore =
                               clampNumber(ReplyScore(reply), 60, 0, 100)]
                /\ EndPhase
                /\ UNCHANGED <<sec, fullContent, documentId, error, thrown>>
    /\ UNCHANGED <<calc, gw, rev, lit, concurrent, params, job, db, cancel, cancelled, lastWriter, termWrite>>

ArgumentArchitecture(S) ==
    /\ pc = "call" /\ ph = 3
    /\ \E content \in S.outlines :
           ctx' = [ctx EXCEPT !.outline = IF content # "" THEN content ELSE "default outline"]
    /\ EndPhase
    /\ UNCHANGED <<calc, gw, rev, lit, concurrent, params, job, db, sec, fullContent, documentId, error, cancel,
                   thrown, cancelled, lastWriter, termWrite>>

\* updateProgress at the head of the section loop.
\* Mutant of SectionProgress: the sections share the rest of the scale, the
\* last one reaching its end.
SectionProgress_toTheEnd ==
    /\ pc = "secProgress"
    /\ job' = updateProgress(job, "Section Writing",
                             40 + RoundDiv((sec + 1) * 60, NumSections))
    /\ pc' = "secCall"
    /\ lastWriter' = "pipeline"
    /\ UNCHANGED <<calc, gw, rev, lit, concurrent, params, db, ph, sec, ctx, fullContent, documentId, error, cancel,
                   started, active, thrown, cancelled, termWrite>>

\* Mutant of SectionProgress: the sections are spread over the weight of the
\* phase.
SectionProgress_overWeight ==
    /\ pc = "secProgress"
    /\ job' = updateProgress(job, "Section Writing", 40 + RoundDiv(sec * 40, NumSections))
    /\ pc' = "secCall"
    /\ lastWriter' = "pipeline"
    /\ UNCHANGED <<calc, gw, rev, lit, concurrent, params, db, ph, sec, ctx, fullContent, documentId, error, cancel,
                   started, active, thrown, cancelled, termWrite>>

\* updateProgress(jobId, "Section Writing", 40 + Math.round((i / 7) * 30)).
SectionProgress ==
    /\ pc = "secProgress"
    /\ job' = updateProgress(job, "Section Writing", 40 + RoundDiv(sec * 30, NumSections))
    /\ pc' = "secCall"
    /\ lastWriter' = "pipeline"
    /\ UNCHANGED <<calc, gw, rev, lit, concurrent, params, db, ph, sec, ctx, fullContent, documentId, error, cancel,
                   started, active, thrown, cancelled, termWrite>>

SectionWrite(S) ==
    /\ pc = "secCall"
    /\ \E content \in S.bodies :
           ctx' = [ctx EXCEPT !.sections =
                       Append(@, SectionBody(sections[sec + 1], content, params,
                                             Len(ctx.citations)))]
    /\ sec' = sec + 1
    /\ IF sec + 1 < NumSections
       THEN pc' = "secProgress" /\ UNCHANGED <<ph, started, active>>
       ELSE EndPhase
    /\ UNCHANGED <<calc, gw, rev, lit, concurrent, params, job, db, fullContent, documentId, error, cancel,
                   thrown, cancelled, lastWriter, termWrite>>

FigureGeneration(S) ==
    /\ pc = "call" /\ ph = 5
    /\ LET numFigures == Requested(params.numFigures)
           numTables == Requested(params.numTables)
       IN IF numFigures = 0 /\ numTables = 0
          THEN /\ ctx' = [ctx EXCEPT !.figurePlans = <<>>, !.tablePlans = <<>>]
               /\ EndPhase
               /\ UNCHANGED <<sec, fullContent, documentId, error, thrown>>
          ELSE \E reply \in S.plans :
                 IF reply.kind = "null"
                 THEN Throw(NullPlanError)
                 ELSE /\ ctx' = [ctx EXCEPT
                                   !.figurePlans = FigurePlans(ParsePlan(reply), numFigures),
                                   !.tablePlans = TablePlans(ParsePlan(reply), numTables)]
                      /\ EndPhase
                      /\ UNCHANGED <<sec, fullContent, documentId, error, thrown>>
    /\ UNCHANGED <<calc, gw, rev, lit, concurrent, params, job, db, cancel, cancelled, lastWriter, termWrite>>

InternalReview(S) ==
    /\ pc = "call" /\ ph = 6
    /\ \E reply \in S.quality :
           IF reply.kind = "null"
           THEN Throw(NullScoreError)
           ELSE /\ ctx' = [ctx EXCEPT !.qualityScore =
                               clampNumber(ReplyScore(reply), 80, 0, 100)]
                /\ EndPhase
                /\ UNCHANGED <<sec, fullContent, documentId, error, thrown>>
    /\ UNCHANGED <<calc, gw, rev, lit, concurrent, params, job, db, cancel, cancelled, lastWriter, termWrite>>

\* Final Assembly up to the first store call: the content is assembled.
Assemble(S) ==
    /\ pc = "assemble"
    /\ LET maxRef == Len(ctx.citations)
           body == AssembleBody(ctx, maxRef)
       IN IF NeedsRewrite(body, params)
          THEN \E reply \in S.rewrites :
                   fullContent' = FullContent(AdjustedBody(body, reply, maxRef), ctx, params)
          ELSE fullContent' = FullContent(body, ctx, params)
    /\ pc' = "createDocument"
    /\ UNCHANGED <<calc, gw, rev, lit, concurrent, params, job, db, ph, sec, ctx, documentId, error, cancel,
                   started, active, thrown, cancelled, lastWriter, termWrite>>

CreateDocument ==
    /\ pc = "createDocument"
    /\ LET id == Len(db.documents) + 1 IN
       /\ db' = [db EXCEPT !.documents = Append(@,
                    [id |-> id, jobId |-> 1, content |-> fullContent,
                     citationStyle |-> params.citationStyle,
                     noveltyScore |-> ctx.noveltyScore,
                     qualityScore |-> ctx.qualityScore,
                     noveltyClassification |-> noveltyClassification(ctx.noveltyScore)])]
       /\ documentId' = id
    /\ pc' = "createAuthors"
    /\ UNCHANGED <<calc, gw, rev, lit, concurrent, params, job, ph, sec, ctx, fullContent, error, cancel,
                   started, active, thrown, cancelled, lastWriter, termWrite>>

CreateAuthors ==
    /\ pc = "createAuthors"
    /\ db' = [db EXCEPT !.authors = @ \o
                 [i \in 1..params.authors |-> [documentId |-> documentId, orderIndex |-> i]]]
    /\ pc' = "createCitations"
    /\ UNCHANGED <<calc, gw, rev, lit, concurrent, params, job, ph, sec, ctx, fullContent, documentId, error, cancel,
                   started, active, thrown, cancelled, lastWriter, termWrite>>

CreateCitations ==
    /\ pc = "createCitations"
    /\ db' = [db EXCEPT !.citations = @ \o
                 [i \in 1..Len(ctx.citations) |->
                     [documentId |-> documentId,
                      title |-> ctx.citations[i].paper.title,
                      year |-> ctx.citations[i].paper.year,
                      citationKey |-> ctx.citations[i].citationKey,
                      orderIndex |-> i]]]
    /\ pc' = "createFigures"
    /\ UNCHANGED <<calc, gw, rev, lit, concurrent, params, job, ph, sec, ctx, fullContent, documentId, error, cancel,
                   started, active, thrown, cancelled, lastWriter, termWrite>>

CreateFigures ==
    /\ pc = "createFigures"
    /\ db' = [db EXCEPT !.figures = @ \o
                 [i \in 1..Len(ctx.figurePlans) |->
                     [documentId |-> documentId,
                      figureNumber |-> ctx.figurePlans[i].figureNumber,
                      caption |-> ctx.figurePlans[i].caption,
                      positionInDocument |-> i]]]
    /\ pc' = "createTables"
    /\ UNCHANGED <<calc, gw, rev, lit, concurrent, params, job, ph, sec, ctx, fullContent, documentId, error, cancel,
                   started, active, thrown, cancelled, lastWriter, termWrite>>

CreateTables ==
    /\ pc = "createTables"
    /\ db' = [db EXCEPT !.tables = @ \o
                 [i \in 1..Len(ctx.tablePlans) |->
                     [documentId |-> documentId,
                      tableNumber |-> ctx.tablePlans[i].tableNumber,
                      caption |-> ctx.tablePlans[i].caption,
                      positionInDocument |-> i]]]
    /\ pc' = "complete"
    /\ UNCHANGED <<calc, gw, rev, lit, concurrent, params, job, ph, sec, ctx, fullContent, documentId, error, cancel,
                   started, active, thrown, cancelled, lastWriter, termWrite>>

\* db.completeGenerationJob(jobId, {status: "completed", ...}); the phase and
\* with it the run return, and the context goes out of scope.
CompleteJob ==
    /\ pc = "complete"
    /\ job' = completeGenerationJob(job, CompletedData(ctx))
    /\ lastWriter' = "pipeline"
    /\ termWrite' = "completed"
    /\ EndPhase
    /\ ctx' = EmptyContext
    /\ fullContent' = <<>>
    /\ UNCHANGED <<calc, gw, rev, lit, concurrent, params, db, sec, documentId, error, cancel, thrown, cancelled>>

\* An external call of the phase being executed throws: the store is not
\* available, or the model backend answers with a terminal error.
PhaseThrows ==
    /\ \/ CallsStore /\ Throw(DbError)
       \/ CallsModel /\ Throw(LlmError)
    /\ UNCHANGED <<calc, gw, rev, lit, concurrent, params, job, db, cancel, cancelled, lastWriter, termWrite>>

\* Mutant of CatchWrite: the outer catch logs the error and writes nothing.
CatchWrite_logsOnly ==
    /\ pc = "catch"
    /\ pc' = "done"
    /\ UNCHANGED <<calc, gw, rev, lit, concurrent, params, job, db, ph, sec, ctx, fullContent, documentId, error,
                   cancel, started, active, thrown, cancelled, lastWriter, termWrite>>

\* The outer catch of generateDocument writes the job failed; if the store
\* throws here, generateDocument rejects with the store's error.
CatchWrite ==
    /\ pc = "catch"
    /\ \/ /\ job' = completeGenerationJob(job, FailedData(error))
          /\ lastWriter' = "pipeline"
          /\ termWrite' = "failed"
          /\ pc' = "done"
          /\ UNCHANGED error
       \/ /\ error' = DbError
          /\ pc' = "reject"
          /\ UNCHANGED <<job, lastWriter, termWrite>>
    /\ UNCHANGED <<calc, gw, rev, lit, concurrent, params, db, ph, sec, ctx, fullContent, documentId, cancel,
                   started, active, thrown, cancelled>>

\* The .catch of generation.create: a second, unawaited completeGenerationJob.
RouterCatch ==
    /\ pc = "reject"
    /\ \/ /\ job' = completeGenerationJob(job, FailedData(error))
          /\ lastWriter' = "pipeline"
          /\ termWrite' = "failed"
       \/ /\ termWrite' = "lost"
          /\ UNCHANGED <<job, lastWriter>>
    /\ pc' = "done"
    /\ UNCHANGED <<calc, gw, rev, lit, concurrent, params, db, ph, sec, ctx, fullContent, documentId, error, cancel,
                   started, active, thrown, cancelled>>

\* generation.cancel up to its write: the job is read and checked.
CancelRead(c) ==
    /\ cancel[c] = "idle"
    /\ \A k \in 1..(c - 1) : cancel[k] # "idle"
    /\ \E user \in Users :
           cancel' = [cancel EXCEPT ![c] =
               IF user # Owner THEN "refused"
               ELSE IF job.status = "completed" \/ job.status = "failed" THEN "refused"
               ELSE "write"]
    /\ UNCHANGED <<calc, gw, rev, lit, concurrent, params, job, db, runVars, histVars>>

\* generation.cancel: completeGenerationJob(failed, "Cancelled by user").
CancelWrite(c) ==
    /\ cancel[c] = "write"
    /\ job' = completeGenerationJob(job, FailedData(CancelMessage))
    /\ cancel' = [cancel EXCEPT ![c] = "ok"]
    /\ cancelled' = TRUE
    /\ lastWriter' = "cancel"
    /\ UNCHANGED <<calc, gw, rev, lit, concurrent, params, db, runVars, started, active, thrown, termWrite>>

\* The steps of generateDocument.
Pipeline(S) ==
    \/ UpdateProgress
    \/ LiteratureReview(S)
    \/ NoveltyAssessment(S)
    \/ ArgumentArchitecture(S)
    \/ SectionProgress
    \/ SectionWrite(S)
    \/ FigureGeneration(S)
    \/ InternalReview(S)
    \/ Assemble(S)
    \/ CreateDocument
    \/ CreateAuthors
    \/ CreateCitations
    \/ CreateFigures
    \/ CreateTables
    \/ CompleteJob
    \/ PhaseThrows
    \/ CatchWrite
    \/ RouterCatch

Cancel == \E c \in 1..MaxCancels : CancelRead(c) \/ CancelWrite(c)

\* -------------------------------------------------------------- scenarios
BaseParams == [numReferences |-> 1, numFigures |-> 1, numTables |-> 1,
               citationStyle |-> "APA7", targetWordCount |-> 1200,
               enforceWordCount |-> FALSE, quartic |-> FALSE, authors |-> 1]

Found(f, r, h) == [ok |-> TRUE, foundational |-> f, recent |-> r, highImpact |-> h]
LookupFailed == [ok |-> FALSE, foundational |-> <<>>, recent |-> <<>>, highImpact |-> <<>>]

Score(n) == [kind |-> "object", score |-> n]
Garbage == [kind |-> "garbage"]

PlainBody == <<W, W, W>>

FigureEntry == [figureType |-> "plot", caption |-> "One figure only", altText |-> "Alt",
                columns |-> <<>>, rows |-> <<>>]
TableEntry == [figureType |-> Missing, caption |-> "One table only", altText |-> Missing,
               columns |-> <<"A", "B">>, rows |-> << <<"1", "2">> >>]
Plan(f, t) == [kind |-> "object", figures |-> f, tables |-> t]

\* The job lifecycle: one request, the run against a store and a model
\* backend that may fail at any call, and cancel requests.
Lifecycle == [
    params |-> {BaseParams},
    literature |-> {Found(<<Paper(1)>>, <<>>, <<>>), LookupFailed},
    novelty |-> {Score(70)},
    outlines |-> {"outline"},
    bodies |-> {PlainBody},
    plans |-> {Plan(<<FigureEntry>>, <<TableEntry>>)},
    quality |-> {Score(85)},
    rewrites |-> {<<>>} ]

InitLifecycle == Init(Lifecycle)
Next == Pipeline(Lifecycle) \/ Cancel
Spec == InitLifecycle /\ [][Next]_vars


\* A section reply with a leading heading, a numeric marker, a key marker
\* and a key marker beyond every key that can be assigned.
MarkedBody == <<H2("Duplicate Heading"), W, Num(1), Ref(2), W, Ref(MaxRefs + 1)>>

\* Citations: the requested reference count, the citation style and the
\* literature outcome vary, and so do the markers of the section replies.
Citing == [
    params |-> {[BaseParams EXCEPT !.numReferences = r, !.citationStyle = style] :
                    r \in {Undefined} \cup 0..MaxRefs, style \in {"APA7", "MLA9", "IEEE"}},
    literature |-> {LookupFailed,
                    Found(<<>>, <<>>, <<>>),
                    Found(<<Paper(1)>>, <<PaperNoId, Paper(1)>>, <<>>),
                    Found(<<Paper(1)>>, <<Paper(2)>>, <<Paper(1), Paper(3)>>)},
    novelty |-> {Score(70)},
    outlines |-> {"outline"},
    bodies |-> {PlainBody, MarkedBody},
    plans |-> {Plan(<<FigureEntry>>, <<TableEntry>>)},
    quality |-> {Score(85)},
    rewrites |-> {<<>>} ]

InitCiting == Init(Citing)
NextCiting == Pipeline(Citing)
SpecCiting == InitCiting /\ [][NextCiting]_vars

NoEntry == [figureType |-> Missing, caption |-> Missing, altText |-> Missing,
            columns |-> <<>>, rows |-> <<>>]

\* Figures and tables: the requested counts vary, and the plan the model
\* returns is no JSON, null, empty, shorter or longer than requested.
Assets == [
    params |-> {[BaseParams EXCEPT !.numFigures = f, !.numTables = t] :
                    f \in {Undefined} \cup 0..MaxFigures,
                    t \in {Undefined} \cup 0..MaxTables},
    literature |-> {Found(<<Paper(1)>>, <<>>, <<>>)},
    novelty |-> {Score(70), Garbage},
    outlines |-> {"outline", ""},
    bodies |-> {PlainBody},
    plans |-> {Garbage,
               [kind |-> "null"],
               Plan(<<>>, <<>>),
               Plan(<<FigureEntry>>, <<TableEntry>>),
               Plan(<<NoEntry>>, <<NoEntry>>),
               Plan([i \in 1..(MaxFigures + 1) |-> FigureEntry],
                    [i \in 1..(MaxTables + 1) |-> TableEntry])},
    quality |-> {Score(85)},
    rewrites |-> {<<>>} ]

InitAssets == Init(Assets)
NextAssets == Pipeline(Assets)
SpecAssets == InitAssets /\ [][NextAssets]_vars

\* generateDocument is a detached task on the event loop: as long as every
\* call it awaits returns or throws, its next step is taken.
FairSpec == Spec /\ WF_vars(Pipeline(Lifecycle))

\* ------------------------------------------------------------ job lifecycle
Terminal == {"completed", "failed"}

LifecycleEdges == {<<"queued", "processing">>, <<"processing", "completed">>,
                   <<"processing", "failed">>}

\* A step in which a cancel request writes the job.
CancelWrites == \E c \in 1..MaxCancels : cancel[c] = "write" /\ cancel'[c] = "ok"

\* C1 as stated: the persisted status of the job only changes along queued ->
\* processing, processing -> completed and processing -> failed, whatever the
\* interleaving of the run with cancel requests.
C1_LifecycleOnly ==
    [][job'.status # job.status => <<job.status, job'.status>> \in LifecycleEdges]_vars

\* C1 as amended: a change of the status is a lifecycle edge, or queued ->
\* failed (the first progress write threw and the outer catch wrote), or the
\* write of a cancel request, which sets failed, or a write of the still
\* running pipeline that follows a cancel write and moves failed to processing
\* or to completed.  No write leads back to queued.
C1_Transitions ==
    [][job'.status # job.status =>
          \/ /\ ~CancelWrites
             /\ <<job.status, job'.status>> \in
                    LifecycleEdges \cup {<<"queued", "failed">>}
          \/ /\ CancelWrites
             /\ job'.status = "failed"
          \/ /\ ~CancelWrites
             /\ cancelled
             /\ job.status = "failed"
             /\ job'.status \in {"processing", "completed"}]_vars

\* A cancelled job that the running pipeline has written back to processing.
C1_Witness ==
    /\ cancelled
    /\ job.status = "processing"
    /\ job.errorMessage = CancelMessage

\* C2: the phases of a run start in the fixed order, one at a time, each only
\* after the one before it has settled.
C2_PhaseOrder ==
    /\ Len(started) <= NumPhases
    /\ \A i \in 1..Len(started) : started[i] = Phases[i].name
    /\ Cardinality(active) <= 1
    /\ active \subseteq {Len(started)}

C2_Witness ==
    /\ Len(started) = NumPhases
    /\ active = {NumPhases}
    /\ pc = "complete"

\* C3: when a phase throws message m, no phase is started afterwards (the
\* failed phase is not called again, no later phase is called), the error is
\* attributed to the phase that was running, and the outer catch writes the
\* job failed with the message "[<phase name>] m".
C3_PhaseFailure ==
    /\ [][thrown # NoThrow => started' = started]_vars
    /\ [][thrown = NoThrow /\ thrown' # NoThrow =>
             thrown'.phase = started[Len(started)]]_vars
    /\ [][pc = "catch" /\ pc' = "done" =>
             /\ job'.status = "failed"
             /\ job'.errorMessage = "[" \o thrown.phase \o "] " \o thrown.message]_vars

C3_Witness ==
    /\ pc = "done"
    /\ thrown = [phase |-> "Section Writing", message |-> LlmError]
    /\ job.status = "failed"
    /\ job.errorMessage = "[Section Writing] LLM invoke failed: Error: LLM invoke failed: 400 (hint)"
    /\ Len(started) = 4

\* The rows of the run's Document are all there.
RowsComplete ==
    /\ Len(db.documents) = 1
    /\ Len(db.authors) = params.authors
    /\ Len(db.citations) = Requested(params.numReferences)
    /\ Len(db.figures) = Requested(params.numFigures)
    /\ Len(db.tables) = Requested(params.numTables)

\* C4 as stated: a run that is not cancelled and whose terminal write went
\* through ends with all rows created and the job completed, or with the job
\* failed and no row of the run in the store.
C4_AllOrNothing ==
    (pc = "done" /\ ~cancelled /\ termWrite \in Terminal) =>
        \/ job.status = "completed" /\ RowsComplete
        \/ job.status = "failed" /\ db = EmptyDb

\* C5: a run whose awaited calls all return or throw reaches its end, and
\* unless the store refused the terminal write, that write was completed for a
\* run in which no phase threw and failed otherwise, and the job is left in a
\* terminal status.
C5_TerminalWrite ==
    <>(/\ pc = "done"
       /\ termWrite # "lost" =>
              /\ termWrite = IF thrown = NoThrow THEN "completed" ELSE "failed"
              /\ job.status \in Terminal)

C5_Witness ==
    /\ pc = "done"
    /\ termWrite = "failed"
    /\ thrown.phase = "Final Assembly"
    /\ job.status = "failed"

\* C6: a cancel request writes only after it read the job queued or
\* processing; its write sets failed with the cancellation message and leaves
\* the run where it is; a run in which no phase throws goes through all seven
\* phases, creates its Document and writes completed, cancelled or not.
C6_NoPreemption ==
    /\ [][\A c \in 1..MaxCancels :
             cancel[c] = "idle" /\ cancel'[c] = "write" =>
                 job.status \in {"queued", "processing"}]_vars
    /\ [][CancelWrites =>
             /\ job'.status = "failed"
             /\ job'.errorMessage = CancelMessage
             /\ UNCHANGED <<runVars, db, started, active>>]_vars
    /\ [](pc = "done" /\ thrown = NoThrow =>
             /\ Len(started) = NumPhases
             /\ RowsComplete
             /\ termWrite = "completed")

\* A run cancelled during Literature Review that went on to the end.
C6_Witness ==
    /\ cancelled
    /\ job.currentPhase = "Final Assembly"
    /\ pc = "done"
    /\ thrown = NoThrow
    /\ RowsComplete

\* C7: the last write wins.  When a cancel request wrote the job last, the job
\* is failed with the cancellation message; when the pipeline's completion
\* write came last, the job is completed, also after a cancellation.
C7_LastWriteWins ==
    /\ lastWriter = "cancel" =>
           job.status = "failed" /\ job.errorMessage = CancelMessage
    /\ lastWriter = "pipeline" /\ termWrite = "completed" =>
           job.status = "completed"
    /\ lastWriter = "pipeline" /\ termWrite = "failed" =>
           job.status = "failed"

\* A job cancelled mid-run that is completed afterwards, its Document stored.
C7_Witness ==
    /\ cancelled
    /\ lastWriter = "pipeline"
    /\ job.status = "completed"
    /\ RowsComplete


\* ------------------------------------------------------------------ content
Count(P(_), s) == Len(SeqFilter(P, s))

IsRefEntry(tok) == tok.t = "refentry"
IsNoRefs(tok) == tok.t = "norefs"
IsFigureBlock(tok) == tok.t = "h3" /\ tok.number[1] = "Figure"
IsTableBlock(tok) == tok.t = "h3" /\ tok.number[1] = "Table"

\* The tokens of the content from its last "## References" heading on.
ReferencesBlock(content) ==
    LET at == {i \in 1..Len(content) : content[i] = H2("References")}
    IN IF at = {} THEN <<>>
       ELSE SubSeq(content, CHOOSE i \in at : \A k \in at : k <= i, Len(content))

\* The run is past Literature Review and its context is still in use.
ContextBound == ph > 1 /\ pc \notin {"catch", "reject", "done"}

\* C8: whatever the literature lookup yields, the run binds exactly R
\* citations, the references block of the persisted content lists exactly R
\* entries, and for R = 0 it is the "no references" line without any entry.
C8_ReferenceCount ==
    LET R == Requested(params.numReferences) IN
    /\ ContextBound => Len(ctx.citations) = R
    /\ \A d \in 1..Len(db.documents) :
           LET block == ReferencesBlock(db.documents[d].content) IN
           /\ block # <<>>
           /\ Count(IsRefEntry, block) = R
           /\ Count(IsRefEntry, db.documents[d].content) = R
           /\ Count(IsNoRefs, block) = IF R = 0 THEN 1 ELSE 0
           /\ Len(block) = 1 + Max(R, 1)

\* A completed run of MaxRefs references of which the lookup found one: the
\* second is a placeholder.
C8_Witness ==
    /\ termWrite = "completed"
    /\ Requested(params.numReferences) = MaxRefs
    /\ Len(db.citations) = MaxRefs
    /\ db.citations[1].title[1] = "Paper"
    /\ db.citations[MaxRefs].title[1] = "Placeholder reference"
    /\ Count(IsRefEntry, db.documents[1].content) = MaxRefs

\* The keys the citation markers of a content refer to.
RECURSIVE MarkerRefs(_)
MarkerRefs(content) ==
    IF content = <<>> THEN {}
    ELSE (IF Head(content).t = "cite" THEN Range(Head(content).refs)
          ELSE IF Head(content).t = "ref" THEN {Head(content).n}
          ELSE {})
         \cup MarkerRefs(Tail(content))

\* C9 as stated: in a completed run every citation marker of the persisted
\* content resolves to one of the Document's Citation rows.
C9_MarkersResolve ==
    termWrite = "completed" =>
        \A d \in 1..Len(db.documents) :
            \A n \in MarkerRefs(db.documents[d].content) :
                \E i \in 1..Len(db.citations) :
                    /\ db.citations[i].documentId = db.documents[d].id
                    /\ db.citations[i].citationKey = CitationKey(n)

IsPrefix(s, n) == s = [i \in 1..n |-> i]

BlockNumbers(P(_), content) == SeqMap(LAMBDA tok : tok.number[2], SeqFilter(P, content))

\* C10: whatever plan the model returns, the persisted content carries
\* exactly F figure blocks numbered 1..F and T table blocks numbered 1..T,
\* and a run that created its tables has stored F Figure and T Table rows.
C10_AssetCounts ==
    LET F == Requested(params.numFigures)
        T == Requested(params.numTables)
    IN /\ \A d \in 1..Len(db.documents) :
              /\ IsPrefix(BlockNumbers(IsFigureBlock, db.documents[d].content), F)
              /\ IsPrefix(BlockNumbers(IsTableBlock, db.documents[d].content), T)
       /\ (pc = "complete" \/ termWrite = "completed") =>
              /\ Len(db.figures) = F
              /\ Len(db.tables) = T
              /\ \A i \in 1..F : db.figures[i].figureNumber = <<"Figure", i>>
              /\ \A i \in 1..T : db.tables[i].tableNumber = <<"Table", i>>

\* A completed run of MaxFigures figures and MaxTables tables for which the
\* model planned one of each: the others carry the synthetic caption.
C10_Witness ==
    /\ termWrite = "completed"
    /\ Requested(params.numFigures) = MaxFigures
    /\ Requested(params.numTables) = MaxTables
    /\ Len(db.figures) = MaxFigures
    /\ db.figures[1].caption = "One figure only"
    /\ db.figures[MaxFigures].caption = "Planned figure"
    /\ db.tables[MaxTables].caption = "Planned table"


\* ------------------------------------------------------------ section headings
\* A line such as "1. Abstract".
Numbered(name) == [t |-> "numbered", name |-> name]

\* Section replies that repeat a section heading: "## Abstract" as the leading
\* line, "1. Abstract" followed by "Abstract:", and "## Abstract" as a line
\* inside the text.
LeadingHeading == <<H2("Abstract"), W>>
LeadingTitles == <<Numbered("Abstract"), TitleLine("Abstract"), W>>
InnerHeading == <<W, H2("Abstract"), W>>

Headed == [
    params |-> {BaseParams},
    literature |-> {Found(<<Paper(1)>>, <<>>, <<>>)},
    novelty |-> {Score(70)},
    outlines |-> {"outline"},
    bodies |-> {PlainBody, LeadingHeading, LeadingTitles, InnerHeading},
    plans |-> {Plan(<<FigureEntry>>, <<TableEntry>>)},
    quality |-> {Score(85)},
    rewrites |-> {<<>>} ]

InitHeaded == Init(Headed)
NextHeaded == Pipeline(Headed)
SpecHeaded == InitHeaded /\ [][NextHeaded]_vars

\* The number of "## name" heading lines in a content.
HeadingCount(content, name) ==
    Cardinality({i \in 1..Len(content) : content[i] = H2(name)})

\* C11 as stated: in the persisted content of a completed run each of the
\* seven section headings appears exactly once, whatever the section replies.
C11_HeadingsOnce ==
    termWrite = "completed" =>
        \A d \in 1..Len(db.documents) :
            \A i \in 1..NumSections :
                HeadingCount(db.documents[d].content, sections[i]) = 1


\* ------------------------------------------------- functions on their own
\* No job has been created: the pipeline variables rest.
NoRun ==
    /\ params = BaseParams
    /\ job = QueuedJob
    /\ db = EmptyDb
    /\ ph = 1
    /\ pc = "none"
    /\ sec = 0
    /\ ctx = EmptyContext
    /\ fullContent = <<>>
    /\ documentId = 0
    /\ error = ""
    /\ cancel = [c \in 1..MaxCancels |-> "idle"]
    /\ started = <<>>
    /\ active = {}
    /\ thrown = NoThrow
    /\ cancelled = FALSE
    /\ lastWriter = "none"
    /\ termWrite = "none"

SeqsUpTo(S, n) == UNION {[1..k -> S] : k \in 0..n}

\* Longest text, in tokens, a function is applied to on its own.
MaxTokens == 3

\* Bracketed numbers around the ends of the key range 1..K and around the
\* longest number the pattern matches; key counts likewise (numReferences is
\* any number the request carries).
MarkerNumbers == 0..(MaxRefs + 1) \cup {ThreeDigits, ThreeDigits + 1}
KeyCounts == 0..MaxRefs \cup {ThreeDigits, ThreeDigits + 1}

InitNormalize ==
    /\ NoRun
    /\ gw = NoInvoke
    /\ rev = NoRevision
    /\ lit = NoLiterature
    /\ concurrent = NoConcurrent
    /\ \E markdown \in SeqsUpTo({W, Ref(1)} \cup {Num(n) : n \in MarkerNumbers}, MaxTokens),
          maxRef \in KeyCounts :
           calc = [fn |-> "normalizeCitationKeys", markdown |-> markdown,
                   maxRef |-> maxRef, returned |-> FALSE, result |-> <<>>]

\* normalizeCitationKeys(markdown, maxRef) is called and returns.
CallNormalizeCitationKeys ==
    /\ calc.fn = "normalizeCitationKeys"
    /\ ~calc.returned
    /\ calc' = [calc EXCEPT !.returned = TRUE,
                            !.result = normalizeCitationKeys(calc.markdown, calc.maxRef)]
    /\ UNCHANGED <<jobVars, gw, rev, lit, concurrent>>

NextNormalize == CallNormalizeCitationKeys
SpecNormalize == InitNormalize /\ [][NextNormalize]_vars

\* C12 as stated: with K keys every bracketed number [n] with 1 <= n <= K is
\* rewritten to [refn], every other bracketed number and every other token is
\* left as it is, for every K and n.
C12_NumericMarkers ==
    (calc.fn = "normalizeCitationKeys" /\ calc.returned) =>
        /\ Len(calc.result) = Len(calc.markdown)
        /\ \A i \in 1..Len(calc.markdown) :
               LET tok == calc.markdown[i] IN
               calc.result[i] =
                   IF tok.t = "num" /\ tok.n >= 1 /\ tok.n <= calc.maxRef
                   THEN Ref(tok.n) ELSE tok


\* ------------------------------------------------------------- word count
\* Largest target word count the adjustment is applied to on its own.
MaxTarget == 50

Words(n) == [i \in 1..n |-> W]

\* What the model returns for the rewrite: nothing, or a text with a
\* bracketed number.
Rewrites == {<<>>, <<W, Num(1)>>}

InitAdjust ==
    /\ NoRun
    /\ gw = NoInvoke
    /\ rev = NoRevision
    /\ lit = NoLiterature
    /\ concurrent = NoConcurrent
    /\ \E target \in 0..MaxTarget, words \in 0..(2 * MaxTarget), enforce \in BOOLEAN :
           calc = [fn |-> "adjustBodyToTargetWordCount",
                   bodyMarkdown |-> Words(words),
                   params |-> [BaseParams EXCEPT !.targetWordCount = target,
                                                 !.enforceWordCount = enforce],
                   maxRefCount |-> 1,
                   calls |-> 0, reply |-> <<>>,
                   returned |-> FALSE, result |-> <<>>]

\* adjustBodyToTargetWordCount(bodyMarkdown, params, maxRefCount) is called
\* and returns; calls counts its invokeLLM calls.
CallAdjustBody ==
    /\ calc.fn = "adjustBodyToTargetWordCount"
    /\ ~calc.returned
    /\ IF NeedsRewrite(calc.bodyMarkdown, calc.params)
       THEN \E reply \in Rewrites :
                calc' = [calc EXCEPT
                           !.calls = @ + 1,
                           !.reply = reply,
                           !.returned = TRUE,
                           !.result = AdjustedBody(calc.bodyMarkdown, reply, calc.maxRefCount)]
       ELSE calc' = [calc EXCEPT !.returned = TRUE, !.result = calc.bodyMarkdown]
    /\ UNCHANGED <<jobVars, gw, rev, lit, concurrent>>

NextAdjust == CallAdjustBody
SpecAdjust == InitAdjust /\ [][NextAdjust]_vars

\* C13 as stated: with enforcement on and a target T > 0, a body whose word
\* count is more than 10% of T away from T is rewritten by exactly one model
\* call, the reply re-normalized for citation keys; a body within 10% of T is
\* returned as it is without a model call.
C13_TenPercent ==
    LET T == calc.params.targetWordCount
        current == Len(calc.bodyMarkdown)
        away == IF current > T THEN current - T ELSE T - current
    IN (/\ calc.fn = "adjustBodyToTargetWordCount"
        /\ calc.returned
        /\ calc.params.enforceWordCount
        /\ T > 0) =>
           IF 10 * away > T
           THEN /\ calc.calls = 1
                /\ calc.result = normalizeCitationKeys(
                       IF calc.reply # <<>> THEN calc.reply ELSE calc.bodyMarkdown,
                       calc.maxRefCount)
           ELSE /\ calc.calls = 0
                /\ calc.result = calc.bodyMarkdown


\* ---------------------------------------------------------- style rendering
\* Three bound papers, of one, two and three authors.
BoundPapers == BindCitations(<<Paper(1), Paper(2), Paper(3)>>)

InitRender ==
    /\ NoRun
    /\ gw = NoInvoke
    /\ rev = NoRevision
    /\ lit = NoLiterature
    /\ concurrent = NoConcurrent
    /\ \E markdown \in SeqsUpTo({W} \cup {Ref(n) : n \in 1..Len(BoundPapers)}, MaxTokens),
          style \in {"APA7", "MLA9", "Chicago", "IEEE"} :
           calc = [fn |-> "applyCitationStyleToBody", markdown |-> markdown,
                   citations |-> BoundPapers, style |-> style,
                   returned |-> FALSE, result |-> <<>>]

\* applyCitationStyleToBody(markdown, citations, style) is called and returns.
CallApplyCitationStyle ==
    /\ calc.fn = "applyCitationStyleToBody"
    /\ ~calc.returned
    /\ calc' = [calc EXCEPT
                  !.returned = TRUE,
                  !.result = applyCitationStyleToBody(calc.markdown, calc.citations,
                                                      calc.style)]
    /\ UNCHANGED <<jobVars, gw, rev, lit, concurrent>>

NextRender == CallApplyCitationStyle
SpecRender == InitRender /\ [][NextRender]_vars

\* The key numbers of the maximal runs of adjacent key markers of a text.
RECURSIVE RefRuns(_, _)
RefRuns(s, run) ==
    IF s = <<>> THEN (IF run = <<>> THEN <<>> ELSE <<run>>)
    ELSE IF Head(s).t = "ref" THEN RefRuns(Tail(s), Append(run, Head(s).n))
    ELSE (IF run = <<>> THEN <<>> ELSE <<run>>) \o RefRuns(Tail(s), <<>>)

\* The distinct numbers of a run in the order of their first occurrence.
RECURSIVE FirstOccurrences(_)
FirstOccurrences(ns) ==
    IF ns = <<>> THEN <<>>
    ELSE <<Head(ns)>> \o FirstOccurrences(SeqFilter(LAMBDA n : n # Head(ns), Tail(ns)))

IsCite(tok) == tok.t = "cite"
IsText(tok) == tok.t \notin {"cite", "ref"}

\* "LastName, Year", "X & Y, Year" or "X et al., Year" for a paper.
ApaEntry(paper) ==
    LET last == [i \in 1..Len(paper.authors) |-> paper.authors[i][Len(paper.authors[i])]]
    IN (IF Len(last) = 1 THEN <<last[1]>>
        ELSE IF Len(last) = 2 THEN <<last[1], "&", last[2]>>
        ELSE <<last[1], "et al.">>)
       \o <<",", ToString(paper.year)>>

Occurrences(piece, text) == Cardinality({i \in 1..Len(text) : text[i] = piece})

\* C14: rendering replaces each maximal run of adjacent key markers by one
\* citation and leaves the other text alone.  In IEEE the citation is one
\* bracket list of the run's distinct numbers in first-occurrence order joined
\* by commas; in any other style it is one parenthetical, a single pair of
\* parentheses around one entry per distinct key separated by semicolons, and
\* in APA7 the entry of a key is "LastName, Year" of its paper, with "X & Y"
\* for two authors and "X et al." for three or more.
C14_StyleRendering ==
    (calc.fn = "applyCitationStyleToBody" /\ calc.returned) =>
        LET runs == RefRuns(calc.markdown, <<>>)
            cites == SeqFilter(IsCite, calc.result)
        IN /\ Len(cites) = Len(runs)
           /\ SeqFilter(IsText, calc.result) = SeqFilter(IsText, calc.markdown)
           /\ \A tok \in Range(calc.result) : tok.t # "ref"
           /\ \A k \in 1..Len(runs) :
                  LET distinct == FirstOccurrences(runs[k])
                      text == cites[k].text
                  IN IF calc.style = "IEEE"
                     THEN text = <<"[">>
                                 \o JoinWith([i \in 1..Len(distinct) |->
                                                 <<ToString(distinct[i])>>], ",")
                                 \o <<"]">>
                     ELSE /\ Head(text) = "(" /\ text[Len(text)] = ")"
                          /\ Occurrences("(", text) = 1
                          /\ Occurrences(")", text) = 1
                          /\ Occurrences(";", text) = Len(distinct) - 1
                          /\ calc.style = "APA7" =>
                                 text = <<"(">>
                                        \o JoinWith([i \in 1..Len(distinct) |->
                                               ApaEntry(calc.citations[distinct[i]].paper)],
                                               ";")
                                        \o <<")">>

\* [ref2] [ref1] [ref2] in APA7: "(Lee & Kim, 2022; Author, 2021)".
C14_Witness ==
    /\ calc.fn = "applyCitationStyleToBody"
    /\ calc.returned
    /\ calc.style = "APA7"
    /\ calc.markdown = <<Ref(2), Ref(1), Ref(2)>>
    /\ calc.result = << [t |-> "cite", form |-> "paren", refs |-> <<2, 1>>,
                         parts |-> << [author |-> <<"Lee", "&", "Kim">>, year |-> 2022],
                                      [author |-> <<"Author">>, year |-> 2021] >>,
                         text |-> <<"(", "Lee", "&", "Kim", ",", "2022", ";",
                                    "Author", ",", "2021", ")">>] >>


\* ------------------------------------------------------- error propagation
\* A Citation row that stands for a reference of a lookup that threw.
FromFailedLookup(row) ==
    Len(row.title) = 3 /\ row.title[3] = "Semantic Scholar unavailable"

\* C19 as stated: a run in which the literature lookup or a model call threw
\* a configuration or terminal error never writes its job completed.
C19_ErrorsFailTheJob ==
    termWrite = "completed" =>
        /\ thrown = NoThrow
        /\ \A i \in 1..Len(db.citations) : ~FromFailedLookup(db.citations[i])


\* ------------------------------------------------------------ model gateway
\* Largest configured LLM_MAX_RETRIES explored besides the default.
MaxRetries == 2
DefaultMaxRetries == 4

RECURSIVE Pow2(_)
Pow2(n) == IF n = 0 THEN 1 ELSE 2 * Pow2(n - 1)

\* shouldUseMockMode over LLM_MODE.
shouldUseMockMode(env) == env.llmMode \in {"mock", "fake", "offline"}

\* normalizeResponseFormat: an explicit responseFormat / response_format wins
\* and is only checked for its schema body; an outputSchema / output_schema
\* needs both name and schema body.
normalizeResponseFormat(request) ==
    IF request.via \in {"responseFormat", "response_format"}
    THEN IF request.type = "json_schema" /\ ~request.schema
         THEN [type |-> "error",
               message |-> "responseFormat json_schema requires a defined schema object"]
         ELSE [type |-> request.type, name |-> request.name]
    ELSE IF request.via \in {"outputSchema", "output_schema"}
    THEN IF request.name = Missing \/ ~request.schema
         THEN [type |-> "error", message |-> "outputSchema requires both name and schema"]
         ELSE [type |-> "json_schema", name |-> request.name]
    ELSE [type |-> "undefined", name |-> Missing]

mockJsonForSchema(schemaName) ==
    IF schemaName = "novelty_assessment" THEN "{score: 0.65, classification: moderate}"
    ELSE IF schemaName = "quality_assessment" THEN "{score: 80}"
    ELSE "{ok: true}"

\* The content of the mock result for a normalized format.
MockContent(request, format) ==
    IF format.type = "json_schema" THEN mockJsonForSchema(format.name)
    ELSE "# Mocked Output: " \o request.prompt

\* Mutant of makeMockResult: the content carries the creation time.
makeMockResult_stamped(content, created) ==
    [id |-> "mock", created |-> created, content |-> content \o ToString(created)]

\* makeMockResult: created is Math.floor(Date.now() / 1000).
makeMockResult(content, created) ==
    [id |-> "mock", created |-> created, content |-> content]

NoResult == [id |-> "", created |-> 0, content |-> ""]

ApiKeyError == "BUILT_IN_FORGE_API_KEY is not configured"

\* The error thrown inside the try block for a response that is not ok.
HttpError(status) == "LLM invoke failed: " \o ToString(status)

\* The error the catch block throws on the last attempt.
TerminalError(cause) == "LLM invoke failed: " \o cause \o " (hint)"

isRetryable(status) == status = 429 \/ status >= 500

\* What one network attempt can yield: a response (ok with a JSON body, ok
\* with a body that is no JSON, or an error status with or without a
\* retry-after header, in seconds), a network error, or the abort of the
\* per-attempt timeout.
Outcomes ==
    {[kind |-> "response", status |-> 200, json |-> j, retryAfter |-> Undefined] :
        j \in BOOLEAN}
    \cup {[kind |-> "response", status |-> st, json |-> FALSE, retryAfter |-> ra] :
            st \in {400, 404, 429, 500}, ra \in {Undefined, 0, 60}}
    \cup {[kind |-> "error", status |-> 0, json |-> FALSE, retryAfter |-> Undefined],
          [kind |-> "abort", status |-> 0, json |-> FALSE, retryAfter |-> Undefined]}

NoOutcome == [kind |-> "none", status |-> 0, json |-> FALSE, retryAfter |-> Undefined]

\* String(error) of what the catch block caught.
Cause(outcome) ==
    IF outcome.kind = "abort" THEN "timeout"
    ELSE IF outcome.kind = "error" THEN "TypeError: fetch failed"
    ELSE IF outcome.status = 200 THEN "SyntaxError: Unexpected token"
    ELSE "Error: " \o HttpError(outcome.status)

\* getNumberEnv keeps any finite positive LLM_MAX_RETRIES, whole or not:
\* env.maxRetries is its whole part and env.half says it has a fraction.
\* The loop condition attempt <= maxRetries.
InLoop(env, attempt) == attempt <= env.maxRetries

\* attempt === maxRetries.
IsLast(env, attempt) == ~env.half /\ attempt = env.maxRetries

\* Mutant of NextAttempt: the loop counter stays.
NextAttempt_same(attempt) == attempt

\* attempt++ of the retry loop.
NextAttempt(attempt) == attempt + 1

\* The catch block of an attempt: the last attempt throws the terminal
\* error, any other sleeps 500 * 2^attempt ms, capped.
Caught(outcome) ==
    IF IsLast(gw.env, gw.attempt)
    THEN gw' = [gw EXCEPT !.pc = "thrown", !.attempts = @ + 1, !.last = outcome,
                          !.error = TerminalError(Cause(outcome))]
    ELSE gw' = [gw EXCEPT !.pc = "sleep", !.attempts = @ + 1, !.last = outcome,
                          !.sleeps = @ + 1,
                          !.slept = Min(30000, 500 * Pow2(gw.attempt))]

\* invokeLLM from its entry to the first fetch: the mock branch, the API key
\* check and the normalization of the response format.
InvokeLLM ==
    /\ gw.pc = "call"
    /\ LET format == normalizeResponseFormat(gw.request) IN
       IF shouldUseMockMode(gw.env)
       THEN IF format.type = "error"
            THEN gw' = [gw EXCEPT !.pc = "thrown", !.error = format.message]
            ELSE \E created \in 1..2 :
                     gw' = [gw EXCEPT
                              !.pc = "returned",
                              !.result = makeMockResult(MockContent(gw.request, format),
                                                        created)]
       ELSE IF ~gw.env.forgeApiKey
            THEN gw' = [gw EXCEPT !.pc = "thrown", !.error = ApiKeyError]
       ELSE IF format.type = "error"
            THEN gw' = [gw EXCEPT !.pc = "thrown", !.error = format.message]
       ELSE gw' = [gw EXCEPT !.pc = "fetch", !.attempt = 0]
    /\ UNCHANGED <<jobVars, calc, rev, lit, concurrent>>

\* One pass of the retry loop up to its return, throw or sleep.
Fetch ==
    /\ gw.pc = "fetch"
    /\ \E outcome \in Outcomes, jitter \in {0, 249} :
           IF outcome.kind = "response" /\ outcome.status = 200 /\ outcome.json
           THEN gw' = [gw EXCEPT !.pc = "returned", !.attempts = @ + 1, !.last = outcome,
                                 !.result = [id |-> "chatcmpl", created |-> 1,
                                             content |-> "completion"]]
           ELSE IF outcome.kind = "response" /\ outcome.status # 200
                   /\ isRetryable(outcome.status) /\ ~IsLast(gw.env, gw.attempt)
                THEN gw' = [gw EXCEPT
                              !.pc = "sleep", !.attempts = @ + 1, !.last = outcome,
                              !.sleeps = @ + 1,
                              !.slept = Min(30000,
                                  IF outcome.retryAfter # Undefined
                                  THEN Max(0, outcome.retryAfter * 1000)
                                  ELSE 500 * Pow2(gw.attempt) + jitter)]
                ELSE Caught(outcome)
    /\ UNCHANGED <<jobVars, calc, rev, lit, concurrent>>

\* The sleep is over: the next pass of the loop, or the end of the loop.
SleepReturns ==
    /\ gw.pc = "sleep"
    /\ IF InLoop(gw.env, NextAttempt(gw.attempt))
       THEN gw' = [gw EXCEPT !.pc = "fetch", !.attempt = NextAttempt(gw.attempt)]
       ELSE gw' = [gw EXCEPT !.pc = "thrown", !.attempt = NextAttempt(gw.attempt),
                             !.error = "LLM invoke failed: retry loop exited unexpectedly"]
    /\ UNCHANGED <<jobVars, calc, rev, lit, concurrent>>

\* The caller invokes invokeLLM once more with the same request.
InvokeAgain ==
    /\ gw.pc \in {"returned", "thrown"}
    /\ gw.calls = 1
    /\ gw' = [gw EXCEPT !.pc = "call", !.calls = 2, !.first = gw.result,
                        !.attempt = 0, !.attempts = 0, !.sleeps = 0, !.slept = 0,
                        !.last = NoOutcome, !.result = NoResult, !.error = ""]
    /\ UNCHANGED <<jobVars, calc, rev, lit, concurrent>>

Requests ==
    {[via |-> "none", type |-> "text", name |-> Missing, schema |-> FALSE, prompt |-> "p"]}
    \cup {[via |-> via, type |-> "json_schema", name |-> name, schema |-> schema,
           prompt |-> "p"] :
            via \in {"responseFormat", "response_format", "outputSchema", "output_schema"},
            name \in {Missing, "novelty_assessment", "quality_assessment", "other"},
            schema \in BOOLEAN}
    \cup {[via |-> via, type |-> "text", name |-> Missing, schema |-> FALSE,
           prompt |-> "q"] : via \in {"responseFormat", "response_format"}}

Environments ==
    [llmMode : {"", "mock", "offline"}, forgeApiKey : BOOLEAN,
     maxRetries : 1..MaxRetries \cup {DefaultMaxRetries}, half : BOOLEAN]

InitGateway ==
    /\ NoRun
    /\ calc = NoCall
    /\ rev = NoRevision
    /\ lit = NoLiterature
    /\ concurrent = NoConcurrent
    /\ \E request \in Requests, env \in Environments :
           gw = [pc |-> "call", request |-> request, env |-> env, calls |-> 1,
                 first |-> NoResult, attempt |-> 0, attempts |-> 0, sleeps |-> 0,
                 slept |-> 0, last |-> NoOutcome, result |-> NoResult, error |-> ""]

NextGateway == InvokeLLM \/ Fetch \/ SleepReturns \/ InvokeAgain
SpecGateway == InitGateway /\ [][NextGateway]_vars

\* Every fetch returns, throws or is aborted by the timeout, and every sleep
\* ends.
FairGateway == SpecGateway /\ WF_vars(NextGateway)

\* The last response was an HTTP error that is neither 429 nor 5xx.
ClientError(outcome) ==
    outcome.kind = "response" /\ outcome.status # 200 /\ ~isRetryable(outcome.status)

\* C15: after a response with an HTTP error status other than 429 or 5xx the
\* call has raised its terminal error: it is not in a backoff sleep and makes
\* no further network attempt.
C15_ClientErrorIsTerminal ==
    ClientError(gw.last) => gw.pc = "thrown" /\ gw.sleeps = 0 /\ gw.attempts = 1

\* C16: outside mock mode the call makes at most maxRetries + 1 network
\* attempts, a returned call ended on its first successful response, a call
\* that threw after a network attempt had used up its attempts, a finished
\* call has either a result or an error, and every call finishes.
C16_BoundedAttemptsAndTermination ==
    /\ [](~shouldUseMockMode(gw.env) =>
            /\ gw.attempts <= gw.env.maxRetries + 1
            /\ gw.pc = "returned" =>
                   /\ gw.last.kind = "response" /\ gw.last.status = 200 /\ gw.last.json
                   /\ gw.result # NoResult /\ gw.error = ""
            /\ gw.pc = "thrown" =>
                   /\ gw.error # "" /\ gw.result = NoResult
                   /\ gw.attempts > 0 => gw.attempts = gw.env.maxRetries + 1)
    /\ (gw.pc = "call" ~> gw.pc \in {"returned", "thrown"})

\* The default budget is used up: five attempts, four sleeps, terminal error.
C16_Witness ==
    /\ ~shouldUseMockMode(gw.env)
    /\ gw.env.maxRetries = DefaultMaxRetries
    /\ gw.pc = "thrown"
    /\ gw.attempts = 5
    /\ gw.sleeps = 4
    /\ gw.slept = 4000
    /\ gw.last.kind = "abort"
    /\ gw.error = "LLM invoke failed: timeout (hint)"

\* A request for structured output that lacks the schema name or body.
Incomplete(request) ==
    request.type = "json_schema" /\ (request.name = Missing \/ ~request.schema)

\* C17: a structured-output request without schema name or schema body has
\* failed, once past the entry of the call, with a local error and without a
\* network attempt or a sleep.
C17_IncompleteSchemaFailsFast ==
    Incomplete(gw.request) /\ gw.pc # "call" =>
        gw.pc = "thrown" /\ gw.attempts = 0 /\ gw.sleeps = 0

\* C18: in mock mode there is no network attempt and no sleep, the API key is
\* never asked for, a json_schema request gets the canned JSON of its schema
\* name, any other request the prompt preview, and the second call with the
\* same request returns the content of the first.
C18_MockIsLocalAndDeterministic ==
    shouldUseMockMode(gw.env) =>
        /\ gw.attempts = 0 /\ gw.sleeps = 0 /\ gw.last = NoOutcome
        /\ gw.pc \notin {"fetch", "sleep"}
        /\ gw.error # ApiKeyError
        /\ gw.pc = "returned" =>
               /\ gw.request.type = "json_schema" =>
                      gw.result.content =
                          CASE gw.request.name = "novelty_assessment" ->
                                   "{score: 0.65, classification: moderate}"
                            [] gw.request.name = "quality_assessment" -> "{score: 80}"
                            [] OTHER -> "{ok: true}"
               /\ gw.request.type # "json_schema" =>
                      gw.result.content = "# Mocked Output: " \o gw.request.prompt
               /\ gw.calls = 2 /\ gw.first # NoResult =>
                      gw.result.content = gw.first.content

\* Two mock calls without an API key at different times, same canned content.
C18_Witness ==
    /\ gw.env.llmMode = "mock"
    /\ ~gw.env.forgeApiKey
    /\ gw.calls = 2
    /\ gw.pc = "returned"
    /\ gw.request.name = "novelty_assessment"
    /\ gw.result.content = "{score: 0.65, classification: moderate}"
    /\ gw.first.content = gw.result.content
    /\ gw.first.created # gw.result.created

\* ------------------------------------------------------- revision requests
\* Store calls that may throw during one revision.
MaxStoreFaults == 2

\* request.documentId, the Document the revision is asked for.
SourceDocument == 1

\* Mutant of InsertId: the insert hands back the id of the source Document.
InsertId_reused(documents) == SourceDocument

\* result[0].insertId of createDocument: the auto-increment id after every id
\* given out so far.
InsertId(documents) ==
    LET ids == documents \cup {SourceDocument}
    IN  (CHOOSE i \in ids : \A j \in ids : j <= i) + 1

\* updateRevisionRequestStatus: sets the status, completedAt for a terminal
\* status and newDocumentId when one is given; it updates the row if there
\* is one. by names the caller of the write.
updateRevisionRequestStatus(r, data, by) ==
    LET row == IF ~r.present THEN r
               ELSE [r EXCEPT
                       !.status = data.status,
                       !.completedAt = IF data.status \in Terminal THEN TRUE ELSE @,
                       !.newDocumentId = IF data.newDocumentId \notin {Undefined, 0}
                                         THEN data.newDocumentId ELSE @]
    IN  [row EXCEPT !.writes = Append(@, [status |-> data.status,
                                          newDocumentId |-> data.newDocumentId,
                                          by |-> by])]

\* Most Author rows, and most Citation rows, of a source Document.
MaxSourceRows == 2

\* Mutant of InsertRows: the rows are attached to the source Document.
InsertRows_onSource(docId, values) ==
    [i \in 1..Len(values) |->
        [documentId |-> SourceDocument, value |-> values[i], orderIndex |-> i]]

\* The rows an insert of the listed values adds to a table: orderIndex is
\* index + 1.
InsertRows(docId, values) ==
    [i \in 1..Len(values) |->
        [documentId |-> docId, value |-> values[i], orderIndex |-> i]]

\* where(eq(documentId)).orderBy(orderIndex) of getDocumentAuthors and
\* getDocumentCitations.
RECURSIVE OrderBy(_)
OrderBy(rows) ==
    IF rows = <<>> THEN <<>>
    ELSE LET least == CHOOSE i \in 1..Len(rows) :
                          /\ \A j \in 1..Len(rows) : rows[i].orderIndex <= rows[j].orderIndex
                          /\ \A j \in 1..(i - 1) : rows[j].orderIndex # rows[i].orderIndex
         IN  <<rows[least]>>
             \o OrderBy(SubSeq(rows, 1, least - 1) \o SubSeq(rows, least + 1, Len(rows)))

RowsOf(table, docId) ==
    OrderBy(SeqFilter(LAMBDA row : row.documentId = docId, table))

\* The Document row of the source, and the row createDocument inserts.
SourceRow == [jobId |-> 1, title |-> "T", content |-> "original", qualityScore |-> "original"]
RevisedRow(qualityScore) ==
    [jobId |-> SourceRow.jobId, title |-> SourceRow.title, content |-> "revised",
     qualityScore |-> qualityScore]

\* Whether the next store call may throw ("Database not available", a lost
\* connection).
Throws == IF rev.faults < MaxStoreFaults THEN BOOLEAN ELSE {FALSE}

\* A read or insert of the store threw: control goes to thrownTo.
StoreThrew(thrownTo) == rev' = [rev EXCEPT !.pc = thrownTo, !.faults = @ + 1]

\* await db.updateRevisionRequestStatus(requestId, data): accepted, or thrown.
WriteStatus(data, by, then, thrownTo) ==
    \E throws \in Throws :
        IF throws
        THEN rev' = [rev EXCEPT !.pc = thrownTo, !.faults = @ + 1, !.refused = @ + 1]
        ELSE rev' = [updateRevisionRequestStatus(rev, data, by) EXCEPT !.pc = then]

Failed == [status |-> "failed", newDocumentId |-> Undefined]

\* processRevisionRequest, line 75: the first write.
StartProcessing ==
    /\ rev.pc = "created"
    /\ WriteStatus([status |-> "processing", newDocumentId |-> Undefined],
                   "process", "getRequest", "rejected")
    /\ UNCHANGED <<jobVars, calc, gw, lit, concurrent>>

\* Lines 77-81: the request is read; without one the invocation writes failed.
GetRequest ==
    /\ rev.pc = "getRequest"
    /\ \E throws \in Throws :
           IF throws THEN StoreThrew("rejected")
           ELSE IF ~rev.present THEN WriteStatus(Failed, "process", "done", "rejected")
           ELSE rev' = [rev EXCEPT !.pc = "getDocument"]
    /\ UNCHANGED <<jobVars, calc, gw, lit, concurrent>>

\* Lines 86-90: the source Document is read.
GetDocument ==
    /\ rev.pc = "getDocument"
    /\ \E throws \in Throws :
           IF throws THEN StoreThrew("rejected")
           ELSE IF SourceDocument \notin DOMAIN rev.documents
                THEN WriteStatus(Failed, "process", "done", "rejected")
           ELSE rev' = [rev EXCEPT !.pc = "getRelated"]
    /\ UNCHANGED <<jobVars, calc, gw, lit, concurrent>>

\* Lines 92-93: authors and citations of the source, read before the try.
GetRelated ==
    /\ rev.pc = "getRelated"
    /\ \E throws \in Throws :
           IF throws THEN StoreThrew("rejected")
           ELSE rev' = [rev EXCEPT
                          !.pc = "revise",
                          !.read = [authors |-> RowsOf(rev.authors, SourceDocument),
                                    citations |-> RowsOf(rev.citations, SourceDocument)]]
    /\ UNCHANGED <<jobVars, calc, gw, lit, concurrent>>

\* Lines 142-149: the revision is asked of the model; no content fails the
\* request from inside the try.
Revise ==
    /\ rev.pc = "revise"
    /\ \E answer \in {"content", "empty", "thrown"} :
           CASE answer = "thrown" -> rev' = [rev EXCEPT !.pc = "caught"]
             [] answer = "empty" -> WriteStatus(Failed, "process", "done", "caught")
             [] answer = "content" -> rev' = [rev EXCEPT !.pc = "assessQuality"]
    /\ UNCHANGED <<jobVars, calc, gw, lit, concurrent>>

\* Line 154: assessQuality returns a score, or null and the original's score
\* is kept, or its invokeLLM throws.
AssessQuality ==
    /\ rev.pc = "assessQuality"
    /\ \E answer \in {"score", "null", "thrown"} :
           IF answer = "thrown" THEN rev' = [rev EXCEPT !.pc = "caught"]
           ELSE rev' = [rev EXCEPT !.pc = "createDocument",
                                   !.qualityScore = IF answer = "score" THEN "assessed"
                                                    ELSE "original"]
    /\ UNCHANGED <<jobVars, calc, gw, lit, concurrent>>

\* Lines 156-168: the revised Document is inserted.
CreateRevisedDocument ==
    /\ rev.pc = "createDocument"
    /\ \E throws \in Throws :
           IF throws THEN StoreThrew("caught")
           ELSE LET newDocumentId == InsertId(DOMAIN rev.documents)
                IN  rev' = [rev EXCEPT
                              !.pc = "createAuthors",
                              !.documents =
                                  [id \in DOMAIN @ \cup {newDocumentId} |->
                                      IF id = newDocumentId THEN RevisedRow(rev.qualityScore)
                                      ELSE @[id]],
                              !.created = newDocumentId]
    /\ UNCHANGED <<jobVars, calc, gw, lit, concurrent>>

\* Lines 170-180: the authors read from the source are inserted for the new
\* Document.
CreateRevisedAuthors ==
    /\ rev.pc = "createAuthors"
    /\ \E throws \in Throws :
           IF throws THEN StoreThrew("caught")
           ELSE rev' = [rev EXCEPT
                          !.pc = "createCitations",
                          !.authors = @ \o InsertRows(rev.created,
                                          SeqMap(LAMBDA a : a.value, rev.read.authors))]
    /\ UNCHANGED <<jobVars, calc, gw, lit, concurrent>>

\* Mutant of CreateRevisedCitations: the citations are copied whatever the flag.
CreateRevisedCitations_always ==
    /\ rev.pc = "createCitations"
    /\ rev' = [rev EXCEPT !.pc = "complete",
                          !.citations = @ \o InsertRows(rev.created,
                              SeqMap(LAMBDA c : c.value, rev.read.citations))]
    /\ UNCHANGED <<jobVars, calc, gw, lit, concurrent>>

\* Lines 182-199: the citations read from the source are inserted for the new
\* Document when preserveCitations is set; otherwise no store call is made.
CreateRevisedCitations ==
    /\ rev.pc = "createCitations"
    /\ IF ~rev.preserveCitations THEN rev' = [rev EXCEPT !.pc = "complete"]
       ELSE \E throws \in Throws :
                IF throws THEN StoreThrew("caught")
                ELSE rev' = [rev EXCEPT
                               !.pc = "complete",
                               !.citations = @ \o InsertRows(rev.created,
                                   SeqMap(LAMBDA c : c.value, rev.read.citations))]
    /\ UNCHANGED <<jobVars, calc, gw, lit, concurrent>>

\* Lines 201-204: the request is completed with the new Document's id.
Complete ==
    /\ rev.pc = "complete"
    /\ WriteStatus([status |-> "completed", newDocumentId |-> rev.created],
                   "process", "done", "caught")
    /\ UNCHANGED <<jobVars, calc, gw, lit, concurrent>>

\* Lines 205-208: the catch block of processRevisionRequest.
CatchBlock ==
    /\ rev.pc = "caught"
    /\ WriteStatus(Failed, "process", "done", "rejected")
    /\ UNCHANGED <<jobVars, calc, gw, lit, concurrent>>

\* revisions.create, lines 405-410: the rejected promise is caught by the
\* caller, which writes failed and swallows a failure of that write.
CallerCatch ==
    /\ rev.pc = "rejected"
    /\ WriteStatus(Failed, "caller", "done", "done")
    /\ UNCHANGED <<jobVars, calc, gw, lit, concurrent>>

\* revisions.create has inserted the request as pending and calls
\* processRevisionRequest; present is FALSE for a direct call with an id the
\* store does not hold, source is FALSE when the Document is gone by then.
InitRevision ==
    /\ NoRun
    /\ calc = NoCall
    /\ gw = NoInvoke
    /\ lit = NoLiterature
    /\ concurrent = NoConcurrent
    /\ \E present \in BOOLEAN, source \in BOOLEAN, preserveCitations \in BOOLEAN,
          names \in SeqsUpTo({"A", "B"}, MaxSourceRows),
          keys \in SeqsUpTo({"ref1", "ref2"}, MaxSourceRows) :
           rev = [pc |-> "created", present |-> present,
                  preserveCitations |-> preserveCitations,
                  authors |-> InsertRows(SourceDocument, names),
                  citations |-> InsertRows(SourceDocument, keys),
                  read |-> [authors |-> <<>>, citations |-> <<>>],
                  qualityScore |-> "none",
                  status |-> IF present THEN "pending" ELSE Missing,
                  completedAt |-> FALSE, newDocumentId |-> Undefined,
                  documents |-> IF source THEN [id \in {SourceDocument} |-> SourceRow]
                                ELSE <<>>,
                  created |-> Undefined, writes |-> <<>>, faults |-> 0, refused |-> 0]

NextRevision ==
    \/ StartProcessing
    \/ GetRequest
    \/ GetDocument
    \/ GetRelated
    \/ Revise
    \/ AssessQuality
    \/ CreateRevisedDocument
    \/ CreateRevisedAuthors
    \/ CreateRevisedCitations
    \/ Complete
    \/ CatchBlock
    \/ CallerCatch

SpecRevision == InitRevision /\ [][NextRevision]_vars

\* The status writes the store accepted, in order.
StatusWrites == SeqMap(LAMBDA w : w.status, rev.writes)

\* A completed write carries the id of the Document this invocation created.
CompletedWithNewDocument ==
    \A i \in 1..Len(rev.writes) :
        rev.writes[i].status = "completed" =>
            /\ rev.writes[i].by = "process"
            /\ rev.writes[i].newDocumentId = rev.created
            /\ rev.created \in DOMAIN rev.documents
            /\ rev.created # SourceDocument
            /\ rev.present => rev.newDocumentId = rev.created

C21_NeverRejects ==
    /\ rev.pc # "rejected"
    /\ rev.pc = "done" /\ rev.present /\ rev.status # "completed" =>
           /\ rev.status = "failed"
           /\ rev.writes[Len(rev.writes)].by = "process"

\* The request has been completed.
Completed == rev.writes # <<>> /\ rev.writes[Len(rev.writes)].status = "completed"

\* The listed values of the rows of a Document, in reading order.
ValuesOf(table, docId) == SeqMap(LAMBDA row : row.value, RowsOf(table, docId))

\* C22: no step of processRevisionRequest updates or deletes a Document,
\* Author or Citation row (the source Document and its rows stay as they
\* are, the tables only grow at their end), and a completed revision has
\* added exactly one Document row.
C22_SourceUntouched ==
    /\ [][/\ \A id \in DOMAIN rev.documents :
                 id \in DOMAIN rev.documents' /\ rev.documents'[id] = rev.documents[id]
          /\ SubSeq(rev.authors', 1, Len(rev.authors)) = rev.authors
          /\ SubSeq(rev.citations', 1, Len(rev.citations)) = rev.citations
          /\ RowsOf(rev.authors', SourceDocument) = RowsOf(rev.authors, SourceDocument)
          /\ RowsOf(rev.citations', SourceDocument) = RowsOf(rev.citations, SourceDocument)
         ]_vars
    /\ [](Completed =>
            /\ DOMAIN rev.documents = {SourceDocument, rev.created}
            /\ rev.documents[SourceDocument] = SourceRow
            /\ rev.created # SourceDocument)

\* A completed revision of a Document with two authors and two citations,
\* all still attached to the source.
C22_Witness ==
    /\ Completed
    /\ rev.pc = "done"
    /\ rev.preserveCitations
    /\ Len(RowsOf(rev.authors, SourceDocument)) = 2
    /\ Len(RowsOf(rev.citations, SourceDocument)) = 2
    /\ Len(rev.authors) = 4
    /\ Len(rev.citations) = 4
    /\ rev.documents[rev.created].content = "revised"

\* C23: on a completed revision the new Document has the authors of the
\* source in the same order, and the citations of the source (same keys,
\* same order) exactly when preserveCitations is set, none otherwise.
C23_CopiesFollowTheFlag ==
    Completed =>
        /\ ValuesOf(rev.authors, rev.created) = ValuesOf(rev.authors, SourceDocument)
        /\ rev.preserveCitations =>
               ValuesOf(rev.citations, rev.created) = ValuesOf(rev.citations, SourceDocument)
        /\ ~rev.preserveCitations => RowsOf(rev.citations, rev.created) = <<>>

\* Completed without the flag: two authors copied in order, two citations of
\* the source, none for the new Document.
C23_Witness ==
    /\ Completed
    /\ ~rev.preserveCitations
    /\ ValuesOf(rev.authors, rev.created) = <<"B", "A">>
    /\ ValuesOf(rev.citations, SourceDocument) = <<"ref2", "ref1">>
    /\ RowsOf(rev.citations, rev.created) = <<>>

\* ------------------------------------------------------------ LaTeX export
\* A text is a sequence of characters; a key marker "[ref1]" and a LaTeX
\* command name are single elements of it.
\* Longest run of '#' at the start of a line, and longest text after the
\* line's prefix.
MaxHashes == 7
MaxChars == 2

Reserved == {"&", "%", "$", "#", "_", "{", "}", "~", "^"}
Marker == "[ref1]"
CiteCommand == "\\cite{ref1}"

\* text.replace(/ch/g, by).
ReplaceAll(text, ch, by) ==
    Flatten(SeqMap(LAMBDA c : IF c = ch THEN by ELSE <<c>>, text))

\* Mutant of escapeLatex: the tilde and the circumflex are replaced first.
escapeLatex_bracesLast(text) ==
    LET t1 == ReplaceAll(text, "~", <<"\\", "textasciitilde", "{", "}">>)
        t2 == ReplaceAll(t1, "^", <<"\\", "textasciicircum", "{", "}">>)
        t3 == ReplaceAll(t2, "&", <<"\\", "&">>)
        t4 == ReplaceAll(t3, "%", <<"\\", "%">>)
        t5 == ReplaceAll(t4, "$", <<"\\", "$">>)
        t6 == ReplaceAll(t5, "#", <<"\\", "#">>)
        t7 == ReplaceAll(t6, "_", <<"\\", "_">>)
        t8 == ReplaceAll(t7, "{", <<"\\", "{">>)
    IN  ReplaceAll(t8, "}", <<"\\", "}">>)

\* escapeLatex: nine replacements, one after the other over the whole text.
escapeLatex(text) ==
    LET t1 == ReplaceAll(text, "&", <<"\\", "&">>)
        t2 == ReplaceAll(t1, "%", <<"\\", "%">>)
        t3 == ReplaceAll(t2, "$", <<"\\", "$">>)
        t4 == ReplaceAll(t3, "#", <<"\\", "#">>)
        t5 == ReplaceAll(t4, "_", <<"\\", "_">>)
        t6 == ReplaceAll(t5, "{", <<"\\", "{">>)
        t7 == ReplaceAll(t6, "}", <<"\\", "}">>)
        t8 == ReplaceAll(t7, "~", <<"\\", "textasciitilde", "{", "}">>)
    IN  ReplaceAll(t8, "^", <<"\\", "textasciicircum", "{", "}">>)

IsSpace(c) == c = " "

RECURSIVE trimEnd(_)
trimEnd(text) ==
    IF text # <<>> /\ IsSpace(text[Len(text)])
    THEN trimEnd(SubSeq(text, 1, Len(text) - 1))
    ELSE text

trimStart(text) == DropWhile(IsSpace, text)

\* Number of '#' a line starts with.
RECURSIVE LeadingHashes(_)
LeadingHashes(line) ==
    IF line # <<>> /\ Head(line) = "#" THEN 1 + LeadingHashes(Tail(line)) ELSE 0

\* line.match(/^(#{1,6})\s+(.*)$/): one to six '#', then white space.
HeadingMatch(line) ==
    LET level == LeadingHashes(line)
    IN  level \in 1..6 /\ Len(line) > level /\ IsSpace(line[level + 1])

\* line.match(/^[-*]\s+(.*)$/).
BulletMatch(line) ==
    Len(line) >= 2 /\ line[1] \in {"-", "*"} /\ IsSpace(line[2])

HeadingCommand(level) ==
    IF level = 1 THEN "\\section{"
    ELSE IF level = 2 THEN "\\subsection{"
    ELSE "\\subsubsection{"

\* escaped.replace(/\[(ref\d+)\]/g, ...) of a paragraph line.
WithCites(escaped) == ReplaceAll(escaped, Marker, <<CiteCommand>>)

BeginItemize == <<"\\begin{itemize}">>
EndItemize == <<"\\end{itemize}">>

\* The loop of markdownToLatex over the lines left, with its inItemize flag.
RECURSIVE LatexLines(_, _)
LatexLines(lines, inItemize) ==
    LET closeList == IF inItemize THEN <<EndItemize>> ELSE <<>> IN
    IF lines = <<>> THEN closeList
    ELSE LET line == trimEnd(Head(lines))
             level == LeadingHashes(line)
         IN  IF HeadingMatch(line)
             THEN closeList
                  \o << <<HeadingCommand(level)>>
                        \o escapeLatex(trimStart(SubSeq(line, level + 1, Len(line))))
                        \o <<"}">> >>
                  \o LatexLines(Tail(lines), FALSE)
             ELSE IF BulletMatch(line)
             THEN (IF inItemize THEN <<>> ELSE <<BeginItemize>>)
                  \o << <<"\\item ">> \o escapeLatex(trimStart(Tail(line))) >>
                  \o LatexLines(Tail(lines), TRUE)
             ELSE IF line = <<>>
             THEN closeList \o << <<>> >> \o LatexLines(Tail(lines), FALSE)
             ELSE closeList \o <<WithCites(escapeLatex(line))>>
                  \o LatexLines(Tail(lines), FALSE)

\* markdownToLatex of a content given as its lines (markdown.split("\n")).
markdownToLatex(lines) == LatexLines(lines, FALSE)

\* exportDocument("latex", document): the escaped title and the body.
exportDocument(title, content) ==
    [title |-> escapeLatex(title), body |-> markdownToLatex(content)]

\* The characters texts are made of: the reserved ones, a letter, a space, a
\* backslash and a key marker.
Alphabet == Reserved \cup {"a", " ", "\\", Marker}

Hashes(n) == [i \in 1..n |-> "#"]

\* What a line starts with: nothing, a bullet sign, or a run of '#', each
\* followed by a space.
Prefixes ==
    {<<>>, <<"-", " ">>, <<"*", " ">>} \cup {Hashes(n) \o <<" ">> : n \in 1..MaxHashes}

\* The line that may follow the first one.
SecondLines == {<<>>, <<"-", " ", "a">>, <<"a">>}

InitLatex ==
    /\ NoRun
    /\ gw = NoInvoke
    /\ rev = NoRevision
    /\ lit = NoLiterature
    /\ concurrent = NoConcurrent
    /\ \/ \E prefix \in Prefixes, text \in SeqsUpTo(Alphabet, MaxChars),
             second \in SecondLines :
              calc = [fn |-> "exportDocument", title |-> <<"T">>,
                      content |-> <<prefix \o text>>
                                  \o (IF second = <<>> THEN <<>> ELSE <<second>>),
                      returned |-> FALSE,
                      result |-> [title |-> <<>>, body |-> <<>>]]
       \/ \E title \in SeqsUpTo(Alphabet, MaxChars) :
              calc = [fn |-> "exportDocument", title |-> title, content |-> << <<"a">> >>,
                      returned |-> FALSE,
                      result |-> [title |-> <<>>, body |-> <<>>]]

\* exportDocument("latex", document, options) is called and returns.
CallExportDocument ==
    /\ calc.fn = "exportDocument"
    /\ ~calc.returned
    /\ calc' = [calc EXCEPT !.returned = TRUE,
                            !.result = exportDocument(calc.title, calc.content)]
    /\ UNCHANGED <<jobVars, gw, rev, lit, concurrent>>

NextLatex == CallExportDocument
SpecLatex == InitLatex /\ [][NextLatex]_vars

\* How often an element occurs in the lines of a text.
InLines(lines, element) ==
    Len(SeqFilter(LAMBDA c : c = element, Flatten(lines)))

\* C24: every key marker of the content is rewritten to its \cite command in
\* the exported body, on whatever line it stands; no marker survives.
C24_EveryMarkerBecomesCite ==
    calc.returned =>
        /\ InLines(calc.result.body, Marker) = 0
        /\ InLines(calc.result.body, CiteCommand) = InLines(calc.content, Marker)

\* The escaped form of one character.
EscapedForm(c) ==
    CASE c = "~" -> <<"\\", "textasciitilde", "{", "}">>
      [] c = "^" -> <<"\\", "textasciicircum", "{", "}">>
      [] c \in Reserved \ {"~", "^"} -> <<"\\", c>>
      [] OTHER -> <<c>>

\* A text with every reserved character in its escaped form, once.
Escaped(text) == Flatten(SeqMap(EscapedForm, text))

\* The lines of the exported body that stand for lines of the content.
BodyLines == SeqFilter(LAMBDA l : l \notin {BeginItemize, EndItemize}, calc.result.body)

\* What a content line is exported as when runs of '#' up to most, followed
\* by white space, make a heading.
ExportedAs(raw, most) ==
    LET line == trimEnd(raw)
        level == LeadingHashes(line)
    IN  IF level \in 1..most /\ Len(line) > level /\ line[level + 1] = " "
        THEN <<CASE level = 1 -> "\\section{"
                 [] level = 2 -> "\\subsection{"
                 [] OTHER -> "\\subsubsection{">>
             \o Escaped(trimStart(SubSeq(line, level + 1, Len(line)))) \o <<"}">>
        ELSE IF BulletMatch(line)
        THEN <<"\\item ">> \o Escaped(trimStart(Tail(line)))
        ELSE Flatten(SeqMap(LAMBDA c : IF c = Marker THEN <<CiteCommand>>
                                       ELSE EscapedForm(c), line))

\* C25 as stated: every reserved character of the title and of the lines is
\* exported in its escaped form exactly once, and a heading line of one, two,
\* three or more '#' becomes \section, \subsection, \subsubsection.
C25_EscapedOnceAnyLevel ==
    calc.returned =>
        /\ calc.result.title = Escaped(calc.title)
        /\ Len(BodyLines) = Len(calc.content)
        /\ \A i \in 1..Len(calc.content) :
               BodyLines[i] = ExportedAs(calc.content[i], MaxHashes + 1)

\* C25, amended: the same, with a heading being a line of one to six '#'; a
\* line of seven or more '#' is exported as paragraph text, each '#' escaped.
C25_EscapedOnceSixLevels ==
    calc.returned =>
        /\ calc.result.title = Escaped(calc.title)
        /\ Len(BodyLines) = Len(calc.content)
        /\ \A i \in 1..Len(calc.content) :
               BodyLines[i] = ExportedAs(calc.content[i], 6)

\* A level-three heading with a tilde and a brace, exported with the braces
\* of the tilde's escape left alone.
C25_Witness ==
    /\ calc.fn = "exportDocument"
    /\ calc.returned
    /\ calc.content = << <<"#", "#", "#", " ", "~", "}">> >>
    /\ calc.result.body =
           << <<"\\subsubsection{", "\\", "textasciitilde", "{", "}", "\\", "}", "}">> >>

\* -------------------------------------------------------- literature client
\* Times are in milliseconds. Date.now() at the start is far from zero, the
\* initial value of lastRequestAt.
DEFAULT_MIN_REQUEST_INTERVAL_MS == 1100
DEFAULT_CACHE_TTL_MS == 600000
DEFAULT_MAX_RETRIES == 5
StartTime == 100000

\* Requests issued to the client by the concurrent runs, largest configured
\* SEMANTIC_SCHOLAR_MAX_RETRIES explored with every server answer, and
\* number of idle periods between requests.
MaxRequests == 2
MaxLitRetries == 1
MaxElapses == 2

\* The URL searchPapers builds: limit || 10 is the limit sent.
SearchUrl(query, limit) ==
    "paper/search?query=" \o query \o "&limit="
        \o ToString(IF limit = 0 THEN 10 ELSE limit) \o "&offset=0"

\* The URLs requested: one query with no limit, a limit of ten and of twenty.
Urls == {SearchUrl("a", limit) : limit \in {0, 10, 20}}

\* cacheKey of a request.
CacheKey(url) == "GET " \o url

NoCacheEntry == [key |-> "", expiresAt |-> 0, value |-> [url |-> "", from |-> 0]]

\* responseCache.get(key): the entry of the key, if any.
CacheGet(cache, key) ==
    IF \E e \in cache : e.key = key THEN CHOOSE e \in cache : e.key = key
    ELSE NoCacheEntry

\* getCached: a live entry is a hit, an expired one is deleted.
getCached(cache, key, now) ==
    LET hit == CacheGet(cache, key) IN
    IF hit = NoCacheEntry THEN [value |-> NoCacheEntry.value, cache |-> cache]
    ELSE IF now >= hit.expiresAt
         THEN [value |-> NoCacheEntry.value, cache |-> cache \ {hit}]
         ELSE [value |-> hit.value, cache |-> cache]

\* Mutant of setCached: one entry for all requests.
setCached_oneKey(cache, key, value, ttlMs, now) ==
    {e \in cache : e.key # "GET"}
        \cup {[key |-> "GET", expiresAt |-> now + ttlMs, value |-> value]}

\* setCached: responseCache.set(key, {expiresAt: Date.now() + ttlMs, value}).
setCached(cache, key, value, ttlMs, now) ==
    {e \in cache : e.key # key}
        \cup {[key |-> key, expiresAt |-> now + ttlMs, value |-> value]}

\* The retry-after header of a response: absent, a number of seconds, an
\* HTTP date (as its time), or something else.
NoHeader == [kind |-> "none", n |-> 0]
Headers ==
    {NoHeader, [kind |-> "seconds", n |-> 0], [kind |-> "seconds", n |-> 60],
     [kind |-> "date", n |-> 2000], [kind |-> "other", n |-> 0]}

\* parseRetryAfterMs: null is Undefined. A date is given by its distance from
\* now.
parseRetryAfterMs(header) ==
    CASE header.kind = "seconds" -> Max(0, header.n * 1000)
      [] header.kind = "date" -> Max(0, header.n)
      [] OTHER -> Undefined

\* What the server may answer to one call: a response (ok with JSON, ok with
\* a body that is no JSON, an error status with a retry-after header) or a
\* network error.
Answer(kind, status, header) == [kind |-> kind, status |-> status, header |-> header]
NoAnswer == Answer("none", 0, NoHeader)
AllAnswers ==
    {Answer("json", 200, NoHeader), Answer("text", 200, NoHeader),
     Answer("error", 0, NoHeader), Answer("status", 404, NoHeader)}
    \cup {Answer("status", st, h) : st \in {429, 503}, h \in Headers}
BasicAnswers ==
    {Answer("json", 200, NoHeader), Answer("status", 404, NoHeader),
     Answer("status", 429, NoHeader)}
Throttled == {Answer("status", 429, NoHeader)}

\* waitMs of the retry loop.
WaitMs(answer, attempt, jitter) ==
    LET retryAfterMs == IF answer.status = 429 THEN parseRetryAfterMs(answer.header)
                        ELSE Undefined
        backoffBase == 500 * Pow2(attempt)
    IN  Min(30000, IF retryAfterMs # Undefined THEN retryAfterMs
                   ELSE backoffBase + jitter)

CredentialError == "SEMANTIC_SCHOLAR_API_KEY not configured"
ApiError(status) == "Semantic Scholar API error: " \o ToString(status)

IdleRequest ==
    [pc |-> "idle", url |-> "", at |-> 0, seen |-> NoCacheEntry, attempt |-> 0,
     calls |-> 0, sleeps |-> 0, wake |-> 0, waited |-> Undefined, last |-> NoAnswer,
     value |-> NoCacheEntry.value, error |-> ""]

\* Mutant of MayRun: a request runs as soon as it is enqueued.
MayRun_atOnce(chain, r) == \E i \in 1..Len(chain) : chain[i] = r

\* requestChain.then(run, run): run is called once every request enqueued
\* before has settled.
MayRun(chain, r) == chain # <<>> /\ Head(chain) = r

\* A call of fetch starts now.
Outbound(l, r, now) ==
    [l EXCEPT !.now = now,
              !.prevCallAt = l.lastCallAt,
              !.lastCallAt = now,
              !.reqs[r].pc = "fetch",
              !.reqs[r].calls = @ + 1]

\* Mutant of Settle: a request that threw stays at the head of the chain.
Settle_onlyWhenReturned(l, r, outcome) ==
    [l EXCEPT !.chain = IF outcome = "thrown" THEN @ ELSE Tail(@), !.reqs[r].pc = outcome]

\* The function given to enqueueRequest returned or threw: the chain moves on.
Settle(l, r, outcome) ==
    [l EXCEPT !.chain = Tail(@), !.reqs[r].pc = outcome]

\* Mutant of HasApiKey: the credential is not looked at.
HasApiKey_unchecked(env) == TRUE

\* process.env.SEMANTIC_SCHOLAR_API_KEY is set and not empty.
HasApiKey(env) == env.apiKey

\* semanticScholarFetchJson(url) up to its first await: the credential check,
\* the cache lookup and the enqueueing of the request.
SemanticScholarFetchJson(r, url) ==
    /\ lit.pc = "serving"
    /\ r <= lit.budget
    /\ lit.reqs[r].pc = "idle"
    /\ \A q \in 1..(r - 1) : lit.reqs[q].pc # "idle"
    /\ LET key == CacheKey(url)
           got == getCached(lit.cache, key, lit.now)
           called == [lit EXCEPT !.reqs[r].url = url,
                                 !.reqs[r].at = lit.now,
                                 !.reqs[r].seen = CacheGet(lit.cache, key)]
       IN  IF ~HasApiKey(lit.env)
           THEN lit' = [called EXCEPT !.reqs[r].pc = "thrown",
                                      !.reqs[r].error = CredentialError]
           ELSE IF got.value # NoCacheEntry.value
           THEN lit' = [called EXCEPT !.reqs[r].pc = "returned",
                                      !.reqs[r].value = got.value]
           ELSE lit' = [called EXCEPT !.cache = got.cache,
                                      !.reqs[r].pc = "queued",
                                      !.chain = Append(@, r),
                                      !.enqueued = Append(@, r)]
    /\ UNCHANGED <<jobVars, calc, gw, rev, concurrent>>

\* run of enqueueRequest: the wait for the minimum interval since
\* lastRequestAt, or at once lastRequestAt = Date.now() and fn().
Run(r) ==
    /\ lit.pc = "serving"
    /\ lit.reqs[r].pc = "queued"
    /\ MayRun(lit.chain, r)
    /\ LET elapsed == lit.now - lit.lastRequestAt
           begun == [lit EXCEPT !.started = Append(@, r)]
       IN  IF elapsed < lit.env.minIntervalMs
           THEN lit' = [begun EXCEPT !.reqs[r].pc = "interval",
                                     !.reqs[r].sleeps = @ + 1,
                                     !.reqs[r].wake = lit.now
                                         + (lit.env.minIntervalMs - elapsed)]
           ELSE lit' = [Outbound(begun, r, lit.now) EXCEPT !.lastRequestAt = lit.now]
    /\ UNCHANGED <<jobVars, calc, gw, rev, concurrent>>

\* The sleep of run is over: lastRequestAt = Date.now() and fn() is called.
IntervalOver(r) ==
    /\ lit.reqs[r].pc = "interval"
    /\ LET now == Max(lit.now, lit.reqs[r].wake)
       IN  lit' = [Outbound(lit, r, now) EXCEPT !.lastRequestAt = now]
    /\ UNCHANGED <<jobVars, calc, gw, rev, concurrent>>

\* The call of fetch ends, after some time, with an answer of the server.
Response(r) ==
    /\ lit.reqs[r].pc = "fetch"
    /\ \E answer \in lit.server, jitter \in {0, 249} :
           LET now == lit.now + 100
               got == [lit EXCEPT !.now = now, !.reqs[r].last = answer]
               attempt == lit.reqs[r].attempt
               waitMs == WaitMs(answer, attempt, jitter)
           IN  CASE answer.kind = "json" ->
                        lit' = [Settle(got, r, "returned") EXCEPT
                                  !.reqs[r].value = [url |-> lit.reqs[r].url, from |-> r],
                                  !.cache = setCached(lit.cache, CacheKey(lit.reqs[r].url),
                                                      [url |-> lit.reqs[r].url, from |-> r],
                                                      lit.env.cacheTtlMs, now)]
                 [] answer.kind = "text" ->
                        lit' = [Settle(got, r, "thrown") EXCEPT
                                  !.reqs[r].error = "SyntaxError: Unexpected token"]
                 [] answer.kind = "error" ->
                        lit' = [Settle(got, r, "thrown") EXCEPT
                                  !.reqs[r].error = "TypeError: fetch failed"]
                 [] answer.kind = "status" ->
                        IF ~isRetryable(answer.status) \/ IsLast(lit.env, attempt)
                        THEN lit' = [Settle(got, r, "thrown") EXCEPT
                                       !.reqs[r].error = ApiError(answer.status)]
                        ELSE lit' = [got EXCEPT !.reqs[r].pc = "backoff",
                                                !.reqs[r].sleeps = @ + 1,
                                                !.reqs[r].waited = waitMs,
                                                !.reqs[r].wake = now + waitMs]
    /\ UNCHANGED <<jobVars, calc, gw, rev, concurrent>>

\* The sleep of the retry loop is over: the next attempt, or the end of the
\* loop.
BackoffOver(r) ==
    /\ lit.reqs[r].pc = "backoff"
    /\ LET now == Max(lit.now, lit.reqs[r].wake)
           attempt == lit.reqs[r].attempt + 1
           next == [lit EXCEPT !.now = now, !.reqs[r].attempt = attempt]
       IN  IF InLoop(lit.env, attempt)
           THEN lit' = Outbound(next, r, now)
           ELSE lit' = [Settle(next, r, "thrown") EXCEPT
                          !.reqs[r].error =
                              "Semantic Scholar API error: retry loop exited unexpectedly"]
    /\ UNCHANGED <<jobVars, calc, gw, rev, concurrent>>

\* Time passes while no request is queued or running: one millisecond, or
\* the time-to-live of the cache less one.
Elapse ==
    /\ lit.pc = "serving"
    /\ lit.chain = <<>>
    /\ lit.cache # {}
    /\ lit.elapses < MaxElapses
    /\ \E d \in {1} \cup (IF lit.env.cacheTtlMs > 1 THEN {lit.env.cacheTtlMs - 1} ELSE {}) :
           lit' = [lit EXCEPT !.now = @ + d, !.elapses = @ + 1]
    /\ UNCHANGED <<jobVars, calc, gw, rev, concurrent>>

\* The client of a fresh process: empty cache, resolved chain,
\* lastRequestAt = 0. server is what the literature endpoint may answer and
\* budget the number of requests the runs make.
FreshClient(env, server, budget) ==
    [pc |-> "serving", now |-> StartTime, env |-> env, server |-> server,
     budget |-> budget, cache |-> {}, lastRequestAt |-> 0, chain |-> <<>>,
     reqs |-> [r \in 1..MaxRequests |-> IdleRequest],
     prevCallAt |-> Undefined, lastCallAt |-> Undefined,
     started |-> <<>>, enqueued |-> <<>>, elapses |-> 0]

ClientEnv(apiKey, cacheTtlMs, maxRetries, half) ==
    [apiKey |-> apiKey, minIntervalMs |-> DEFAULT_MIN_REQUEST_INTERVAL_MS,
     cacheTtlMs |-> cacheTtlMs, maxRetries |-> maxRetries, half |-> half]

NextLiterature ==
    \/ \E r \in 1..MaxRequests, url \in Urls : SemanticScholarFetchJson(r, url)
    \/ \E r \in 1..MaxRequests : Run(r)
    \/ \E r \in 1..MaxRequests : IntervalOver(r)
    \/ \E r \in 1..MaxRequests : Response(r)
    \/ \E r \in 1..MaxRequests : BackoffOver(r)
    \/ Elapse

\* Concurrent runs share the client, configured for one retry.
InitLiterature ==
    /\ NoRun
    /\ calc = NoCall
    /\ gw = NoInvoke
    /\ rev = NoRevision
    /\ concurrent = NoConcurrent
    /\ \E apiKey \in BOOLEAN, cacheTtlMs \in {0, DEFAULT_CACHE_TTL_MS} :
           lit = FreshClient(ClientEnv(apiKey, cacheTtlMs, 1, FALSE),
                             BasicAnswers, MaxRequests)

SpecLiterature == InitLiterature /\ [][NextLiterature]_vars

\* Two requests, one after the other, against a server that may answer
\* anything, and one against a server that throttles every call, with the
\* default number of retries.
InitRetry ==
    /\ NoRun
    /\ calc = NoCall
    /\ gw = NoInvoke
    /\ rev = NoRevision
    /\ concurrent = NoConcurrent
    /\ \/ \E maxRetries \in 0..MaxLitRetries, half \in BOOLEAN :
              lit = FreshClient(ClientEnv(TRUE, DEFAULT_CACHE_TTL_MS, maxRetries, half),
                                AllAnswers, 2)
       \/ lit = FreshClient(ClientEnv(TRUE, DEFAULT_CACHE_TTL_MS, DEFAULT_MAX_RETRIES,
                                      FALSE), Throttled, 1)

SpecRetry == InitRetry /\ [][NextLiterature]_vars

\* C26: any two consecutive outbound calls to the literature endpoint, retries
\* included, start at least the configured minimum interval apart.
C26_MinimumIntervalBetweenCalls ==
    lit.prevCallAt # Undefined =>
        lit.lastCallAt - lit.prevCallAt >= lit.env.minIntervalMs

Executing == {r \in 1..MaxRequests : lit.reqs[r].pc \in {"interval", "fetch", "backoff"}}

\* C27: at most one enqueued request, with its retries, is executing at any
\* time, it is the oldest unsettled one, and requests start in the order in
\* which they were enqueued.
C27_OneAtATimeInOrder ==
    /\ Cardinality(Executing) <= 1
    /\ \A r \in Executing : lit.chain # <<>> /\ Head(lit.chain) = r
    /\ Len(lit.started) <= Len(lit.enqueued)
    /\ \A i \in 1..Len(lit.started) : lit.started[i] = lit.enqueued[i]

\* The first request waits to retry while the second, enqueued after it, has
\* not started.
C27_Witness ==
    /\ lit.chain = <<1, 2>>
    /\ lit.reqs[1].pc = "backoff"
    /\ lit.reqs[2].pc = "queued"
    /\ lit.started = <<1>>

\* The entry a request found in the cache was still alive.
Alive(r) ==
    /\ lit.reqs[r].seen # NoCacheEntry
    /\ lit.reqs[r].at < lit.reqs[r].seen.expiresAt

\* C28: a request of a URL cached and not expired returns the cached value
\* with no outbound call; at or after expiry, or with nothing cached, it goes
\* outbound; only successful responses are cached, each under its own URL,
\* so that no request is given the response of another URL.
C28_CachedByUrlUntilExpiry ==
    /\ \A r \in 1..MaxRequests :
           lit.env.apiKey /\ lit.reqs[r].pc # "idle" =>
               /\ Alive(r) =>
                      /\ lit.reqs[r].pc = "returned"
                      /\ lit.reqs[r].calls = 0
                      /\ lit.reqs[r].sleeps = 0
                      /\ lit.reqs[r].value = lit.reqs[r].seen.value
                      /\ lit.reqs[r].seen.key = CacheKey(lit.reqs[r].url)
               /\ ~Alive(r) =>
                      /\ \E i \in 1..Len(lit.enqueued) : lit.enqueued[i] = r
                      /\ lit.reqs[r].pc \in {"returned", "thrown"} => lit.reqs[r].calls >= 1
               /\ lit.reqs[r].pc = "returned" => lit.reqs[r].value.url = lit.reqs[r].url
               /\ lit.reqs[r].pc = "thrown" =>
                      \A e \in lit.cache : e.value.from # r
    /\ \A e \in lit.cache :
           /\ e.key = CacheKey(e.value.url)
           /\ lit.reqs[e.value.from].last.kind = "json"
           /\ lit.reqs[e.value.from].url = e.value.url
           /\ e.expiresAt <= lit.now + lit.env.cacheTtlMs
    /\ \A e, f \in lit.cache : e.key = f.key => e = f

\* The second request asks for the URL of the first a millisecond before its
\* entry expires and is answered from the cache.
C28_Witness ==
    /\ lit.reqs[1].pc = "returned"
    /\ lit.reqs[1].calls = 1
    /\ lit.reqs[2].pc = "returned"
    /\ lit.reqs[2].calls = 0
    /\ lit.reqs[2].url = lit.reqs[1].url
    /\ lit.reqs[2].at = lit.reqs[2].seen.expiresAt - 1
    /\ lit.reqs[2].value = lit.reqs[1].value

\* C29: a response is retried only when its status is 429 or 5xx, at most
\* maxRetries times; when the retried response carries a retry-after header
\* the wait before the next attempt is the delay the server gave; any other
\* status, or a retryable one on the last attempt, raises an error.
C29_RetryAfterReplacesBackoff ==
    \A r \in 1..MaxRequests :
        /\ lit.reqs[r].calls <= lit.env.maxRetries + 1
        /\ lit.reqs[r].pc = "backoff" =>
               /\ lit.reqs[r].last.kind = "status"
               /\ lit.reqs[r].last.status = 429 \/ lit.reqs[r].last.status >= 500
               /\ parseRetryAfterMs(lit.reqs[r].last.header) # Undefined =>
                      lit.reqs[r].waited = parseRetryAfterMs(lit.reqs[r].last.header)
        /\ lit.reqs[r].pc = "thrown" /\ lit.reqs[r].last.kind = "status" =>
               \/ lit.reqs[r].error = ApiError(lit.reqs[r].last.status)
               \/ lit.env.half

\* One call of the model gateway and two requests to the literature client,
\* each with and without its credential.
InitCredentials ==
    /\ NoRun
    /\ calc = NoCall
    /\ rev = NoRevision
    /\ concurrent = NoConcurrent
    /\ \E llmMode \in {"", "mock"}, forgeApiKey \in BOOLEAN :
           gw = [pc |-> "call",
                 request |-> [via |-> "none", type |-> "text", name |-> Missing,
                              schema |-> FALSE, prompt |-> "p"],
                 env |-> [llmMode |-> llmMode, forgeApiKey |-> forgeApiKey,
                          maxRetries |-> 1, half |-> FALSE],
                 calls |-> 1, first |-> NoResult, attempt |-> 0, attempts |-> 0,
                 sleeps |-> 0, slept |-> 0, last |-> NoOutcome, result |-> NoResult,
                 error |-> ""]
    /\ \E apiKey \in BOOLEAN :
           lit = FreshClient(ClientEnv(apiKey, DEFAULT_CACHE_TTL_MS, 1, FALSE),
                             BasicAnswers, 2)

\* The two clients share no state: the requests to the literature client are
\* made once the gateway has answered its caller twice.
NextCredentials ==
    \/ NextGateway
    \/ gw.calls = 2 /\ gw.pc \in {"returned", "thrown"} /\ NextLiterature
SpecCredentials == InitCredentials /\ [][NextCredentials]_vars

\* C30: with its credential missing, a request of the literature client, and
\* a call of the model gateway outside mock mode, fails with the
\* configuration error at once: no outbound call, no wait in the queue, no
\* sleep, no retry.
C30_MissingCredentialFailsFast ==
    /\ \A r \in 1..MaxRequests :
           ~lit.env.apiKey /\ lit.reqs[r].pc # "idle" =>
               /\ lit.reqs[r].pc = "thrown"
               /\ lit.reqs[r].error = CredentialError
               /\ lit.reqs[r].calls = 0
               /\ lit.reqs[r].sleeps = 0
               /\ lit.reqs[r].attempt = 0
               /\ \A i \in 1..Len(lit.enqueued) : lit.enqueued[i] # r
    /\ ~lit.env.apiKey => lit.chain = <<>> /\ lit.lastCallAt = Undefined
    /\ ~shouldUseMockMode(gw.env) /\ ~gw.env.forgeApiKey /\ gw.pc # "call" =>
           /\ gw.pc = "thrown"
           /\ gw.error = ApiKeyError
           /\ gw.attempts = 0
           /\ gw.sleeps = 0
           /\ gw.last = NoOutcome

\* Both clients have failed for want of their credentials, the gateway a
\* second time.
C30_Witness ==
    /\ ~lit.env.apiKey
    /\ lit.reqs[1].pc = "thrown"
    /\ lit.reqs[2].pc = "thrown"
    /\ gw.env.llmMode = ""
    /\ ~gw.env.forgeApiKey
    /\ gw.calls = 2
    /\ gw.pc = "thrown"

\* ---------------------------------------------------------------- key papers
\* Longest result of one search.
MaxResults == 2

\* A paper of a search result with the fields extractKeyPapers looks at; an
\* absent count is 0.
KeyPaper(i, citationCount, influentialCitationCount, year) ==
    [paperId |-> <<"p", i>>, citationCount |-> citationCount,
     influentialCitationCount |-> influentialCitationCount, year |-> year]

\* What the two searches may return: an old and much cited paper that is
\* influential, one that is not, a recent influential paper, a recent one
\* with no counts, and a record without paperId.
SearchPool ==
    {KeyPaper(1, 150, 20, 2015), KeyPaper(2, 150, 0, 2016), KeyPaper(3, 50, 20, 2024),
     KeyPaper(4, 0, 0, 2025),
     [KeyPaper(5, 200, 30, 2017) EXCEPT !.paperId = <<>>]}

\* array.sort((a, b) => Key(b) - Key(a)): stable, largest first.
RECURSIVE SortDesc(_, _)
SortDesc(Key(_), s) ==
    IF s = <<>> THEN <<>>
    ELSE LET sorted == SortDesc(Key, SubSeq(s, 1, Len(s) - 1))
             x == s[Len(s)]
             before == SeqFilter(LAMBDA y : Key(y) >= Key(x), sorted)
             after == SeqFilter(LAMBDA y : Key(y) < Key(x), sorted)
         IN  before \o <<x>> \o after

\* The Map of extractKeyPapers: set(paperId, paper) keeps the place of the
\* first record of a paperId and the value of the last.
RECURSIVE UniqueKeepLast(_, _)
UniqueKeepLast(all, seen) ==
    IF all = <<>> THEN <<>>
    ELSE LET p == Head(all)
             same == SeqFilter(LAMBDA q : q.paperId = p.paperId, all)
         IN  IF p.paperId = <<>> \/ p.paperId \in seen
             THEN UniqueKeepLast(Tail(all), seen)
             ELSE <<same[Len(same)]>> \o UniqueKeepLast(Tail(all), seen \cup {p.paperId})

\* highImpact: the papers of both results, unique by paperId, with more than
\* ten influential citations, most influential first.
HighImpact(first, recentData, third) ==
    LET unique == UniqueKeepLast(first \o recentData, {})
    IN  Take(SortDesc(LAMBDA p : p.influentialCitationCount,
                      SeqFilter(LAMBDA p : p.influentialCitationCount > 10, unique)),
             third)

\* extractKeyPapers(topic, count) for the data of its two searches. The sort
\* of recentResult.data is in place, so the second result enters the Map
\* sorted.
extractKeyPapers(first, second, count) ==
    LET third == count \div 3
        foundational ==
            Take(SortDesc(LAMBDA p : p.citationCount,
                          SeqFilter(LAMBDA p : p.citationCount > 100, first)), third)
        recentData == SortDesc(LAMBDA p : p.year, second)
        recent == Take(recentData, third)
    IN  [foundational |-> foundational, recent |-> recent,
         highImpact |-> HighImpact(first, recentData, third)]

InitKeyPapers ==
    /\ NoRun
    /\ gw = NoInvoke
    /\ rev = NoRevision
    /\ lit = NoLiterature
    /\ concurrent = NoConcurrent
    /\ \E first \in SeqsUpTo(SearchPool, MaxResults),
          second \in SeqsUpTo(SearchPool, MaxResults), count \in {1, 3, 6} :
           calc = [fn |-> "extractKeyPapers", first |-> first, second |-> second,
                   count |-> count, returned |-> FALSE,
                   result |-> [foundational |-> <<>>, recent |-> <<>>,
                               highImpact |-> <<>>]]

\* extractKeyPapers(topic, count) is called and returns.
CallExtractKeyPapers ==
    /\ calc.fn = "extractKeyPapers"
    /\ ~calc.returned
    /\ calc' = [calc EXCEPT !.returned = TRUE,
                            !.result = extractKeyPapers(calc.first, calc.second,
                                                        calc.count)]
    /\ UNCHANGED <<jobVars, gw, rev, lit, concurrent>>

NextKeyPapers == CallExtractKeyPapers
SpecKeyPapers == InitKeyPapers /\ [][NextKeyPapers]_vars

\* The paperIds of the three buckets, one after the other.
BucketIds ==
    SeqMap(LAMBDA p : p.paperId,
           calc.result.foundational \o calc.result.recent \o calc.result.highImpact)

\* C31: no paperId appears in more than one of the buckets foundational,
\* recent and highImpact returned by extractKeyPapers, nor twice within one.
C31_BucketsShareNoPaper ==
    calc.returned =>
        \A i, j \in 1..Len(BucketIds) : BucketIds[i] = BucketIds[j] => i = j

\* ------------------------------------------------------- citation bindings
IsPlaceholder(paper) == paper.paperId # <<>> /\ paper.paperId[1] = "placeholder"

\* The bound records carry ref1..refR in order, over distinct papers, the
\* found ones before the placeholders; the persisted rows carry the same keys
\* with orderIndex 1..R.
KeysInOrder ==
    LET R == Requested(params.numReferences)
        c == ctx.citations
    IN  /\ ContextBound =>
               /\ Len(c) = R
               /\ \A i \in 1..Len(c) : c[i].citationKey = CitationKey(i)
               /\ \A i, j \in 1..Len(c) :
                      c[i].paper.paperId = c[j].paper.paperId => i = j
               /\ \A i, j \in 1..Len(c) :
                      i < j /\ IsPlaceholder(c[i].paper) => IsPlaceholder(c[j].paper)
        /\ db.citations # <<>> =>
               /\ Len(db.citations) = R
               /\ \A i \in 1..Len(db.citations) :
                      /\ db.citations[i].citationKey = CitationKey(i)
                      /\ db.citations[i].orderIndex = i
                      /\ ContextBound => db.citations[i].title = c[i].paper.title
                      /\ db.citations[i].documentId = db.documents[Len(db.documents)].id

\* C32: after Literature Review the i-th bound record has key ref<i>, the keys
\* are exactly ref1..refR over pairwise distinct papers with the found ones
\* first, no later step changes the bindings, and the persisted Citation rows
\* carry ref1..refR with orderIndex 1..R.
C32_KeysBoundOnceInOrder ==
    /\ []KeysInOrder
    /\ [][ContextBound /\ ContextBound' => ctx'.citations = ctx.citations]_vars

\* A run of MaxRefs references has persisted its citations: the lookup found
\* the first paper in two buckets and another one, and their rows are ref1
\* and ref<MaxRefs> in the order of discovery.
C32_Witness ==
    /\ pc = "createFigures"
    /\ Requested(params.numReferences) = MaxRefs
    /\ ctx.citations[1].paper = Paper(1)
    /\ ctx.citations[2].paper = Paper(2)
    /\ Len(db.citations) = MaxRefs
    /\ db.citations[1].citationKey = CitationKey(1)
    /\ db.citations[MaxRefs].citationKey = CitationKey(MaxRefs)
    /\ db.citations[MaxRefs].orderIndex = MaxRefs

\* ----------------------------------------------------------------- progress
\* cumulativeProgress of generateDocument when phase n starts: the weights of
\* the phases before it.
RECURSIVE cumulativeProgress(_)
cumulativeProgress(n) ==
    IF n <= 1 THEN 0 ELSE cumulativeProgress(n - 1) + Phases[n - 1].weight

\* The step is the progress update at the start of the phase.
PhaseStartWrite == pc = "progress" /\ pc' \in {"call", "secProgress", "assemble"}

\* C33: the progress update at the start of a phase names that phase and
\* records the sum of the weights of the phases completed before it, the
\* weights being 15, 10, 15, 40, 10, 5, 5.
C33_ProgressIsCumulativeWeight ==
    [][PhaseStartWrite =>
           /\ job'.currentPhase = Phases[ph].name
           /\ job'.progressPercentage = cumulativeProgress(ph)]_vars

\* C34: no progress update written while the run executes carries 100, and
\* the job record shows progress 100 only together with a terminal status,
\* cancel requests included.
C34_FullProgressIsTerminal ==
    /\ [](job.progressPercentage = 100 => job.status \in {"completed", "failed"})
    /\ [][job' # job /\ job'.status = "processing" => job'.progressPercentage < 100]_vars

\* The run has gone on after a cancel request marked the job failed with
\* progress 100: the job is processing again, at the start of Final Assembly.
C34_Witness ==
    /\ cancelled
    /\ lastWriter = "pipeline"
    /\ job.status = "processing"
    /\ job.currentPhase = "Final Assembly"
    /\ job.progressPercentage = 90

\* ------------------------------------------------------------------ scoring
\* Replies of the model to the two assessments: scores inside and outside the
\* range, an object without a numeric score, text that is no JSON, and the
\* JSON text null.
ScoreReplies ==
    {Score(70), Score(150), Score(-5), Score(Undefined), Garbage, [kind |-> "null"]}

Scoring == [
    params |-> {BaseParams},
    literature |-> {Found(<<Paper(1)>>, <<>>, <<>>)},
    novelty |-> ScoreReplies,
    outlines |-> {"outline"},
    bodies |-> {PlainBody},
    plans |-> {Plan(<<FigureEntry>>, <<TableEntry>>)},
    quality |-> ScoreReplies,
    rewrites |-> {<<>>} ]

InitScoring == Init(Scoring)
NextScoring == Pipeline(Scoring)
SpecScoring == InitScoring /\ [][NextScoring]_vars

\* C35: Novelty Assessment and Internal Review fail only when the store or the
\* model call fails, never because of what the reply contains, and the
\* persisted noveltyScore and qualityScore lie in their ranges (scores are in
\* hundredths of the novelty scale).
C35_RepliesNeverFailScoring ==
    /\ thrown.phase \in {"Novelty Assessment", "Internal Review"} =>
           thrown.message \in {DbError, LlmError}
    /\ \A d \in 1..Len(db.documents) :
           /\ db.documents[d].noveltyScore \in 0..100
           /\ db.documents[d].qualityScore \in 0..100

\* ---------------------------------------------------------- concurrent runs
\* Runs of generateDocument side by side; a value is known by where it comes
\* from: the request, a search of the literature client, or the reply of the
\* model to a prompt of one run.
MaxConcurrent == 2
RunIds == 1..MaxConcurrent
Topics == {"A", "B"}

NoValue == [by |-> 0]
FreshContext ==
    [citations |-> NoValue, noveltyScore |-> NoValue, outline |-> NoValue,
     sections |-> NoValue, plans |-> NoValue, qualityScore |-> NoValue]

\* Mutant of ContextOf: one context for the module.
ContextOf_shared(r) == 1

\* const context = {...} in generateDocument: a context of its own for each
\* call.
ContextOf(r) == r

\* The phases that call the model, by the field of the context they set, and
\* the fields of the context each one puts in its prompt.
ModelPhases == <<"noveltyScore", "outline", "sections", "plans", "qualityScore">>
Reads(field) ==
    CASE field = "noveltyScore" -> {"citations"}
      [] field = "outline" -> {}
      [] field = "sections" -> {"outline", "citations"}
      [] field = "plans" -> {"citations"}
      [] field = "qualityScore" -> {"sections"}

Prompt(request, c, field) ==
    [title |-> request.title, context |-> [f \in Reads(field) |-> c[f]]]

\* The reply of the model to a call of run r.
Reply(r, field, prompt) == [by |-> r, field |-> field, to |-> prompt]

\* The papers a search of the topic yields, whoever made the call.
Search(query) == [by |-> "search", query |-> query]

\* What the run r alone makes of its request.
RECURSIVE AloneContext(_, _, _)
AloneContext(r, request, n) ==
    IF n = 0 THEN [FreshContext EXCEPT !.citations = Search(request.title)]
    ELSE LET c == AloneContext(r, request, n - 1)
             field == ModelPhases[n]
         IN  [c EXCEPT ![field] = Reply(r, field, Prompt(request, c, field))]

\* generateDocument(params) is called: the context is created.
StartRun(r) ==
    /\ concurrent.pc = "running"
    /\ concurrent.at[r] = 0
    /\ concurrent' = [concurrent EXCEPT !.at[r] = 1,
                                       !.ctx[ContextOf(r)] = FreshContext]
    /\ UNCHANGED <<jobVars, calc, gw, rev, lit>>

\* Literature Review, the searches: answered from the cache of the literature
\* client, or fetched and cached.
RunLookup(r) ==
    /\ concurrent.pc = "running"
    /\ concurrent.at[r] = 1
    /\ LET query == concurrent.request[r].title IN
       concurrent' = [concurrent EXCEPT
           !.at[r] = 2,
           !.cache = IF \E e \in @ : e.query = query THEN @
                     ELSE @ \cup {[query |-> query, order |-> "returned", by |-> r]}]
    /\ UNCHANGED <<jobVars, calc, gw, rev, lit>>

\* Literature Review, the rest: the result is sorted in place, in the cache,
\* and the citations are bound.
RunBind(r) ==
    /\ concurrent.pc = "running"
    /\ concurrent.at[r] = 2
    /\ LET query == concurrent.request[r].title IN
       concurrent' = [concurrent EXCEPT
           !.at[r] = 3,
           !.cache = {[e EXCEPT !.order = IF e.query = query THEN "sorted" ELSE @] :
                         e \in @},
           !.ctx[ContextOf(r)].citations = Search(query)]
    /\ UNCHANGED <<jobVars, calc, gw, rev, lit>>

\* A phase that calls the model and stores its reply in the context.
RunModelPhase(r) ==
    /\ concurrent.pc = "running"
    /\ concurrent.at[r] \in 3..(2 + Len(ModelPhases))
    /\ LET field == ModelPhases[concurrent.at[r] - 2]
           c == concurrent.ctx[ContextOf(r)]
       IN  concurrent' = [concurrent EXCEPT
               !.at[r] = @ + 1,
               !.ctx[ContextOf(r)][field] =
                   Reply(r, field, Prompt(concurrent.request[r], c, field))]
    /\ UNCHANGED <<jobVars, calc, gw, rev, lit>>

\* Final Assembly: the document is persisted from the context.
RunPersist(r) ==
    /\ concurrent.pc = "running"
    /\ concurrent.at[r] = 3 + Len(ModelPhases)
    /\ concurrent' = [concurrent EXCEPT
           !.at[r] = @ + 1,
           !.documents[r] = [title |-> concurrent.request[r].title,
                             context |-> concurrent.ctx[ContextOf(r)]]]
    /\ UNCHANGED <<jobVars, calc, gw, rev, lit>>

InitConcurrent ==
    /\ NoRun
    /\ calc = NoCall
    /\ gw = NoInvoke
    /\ rev = NoRevision
    /\ lit = NoLiterature
    /\ \E request \in [RunIds -> [title : Topics]] :
           concurrent = [pc |-> "running", request |-> request,
                         at |-> [r \in RunIds |-> 0],
                         ctx |-> [r \in RunIds |-> FreshContext],
                         cache |-> {},
                         documents |-> [r \in RunIds |-> NoValue]]

NextConcurrent ==
    \E r \in RunIds :
        \/ StartRun(r)
        \/ RunLookup(r)
        \/ RunBind(r)
        \/ RunModelPhase(r)
        \/ RunPersist(r)

SpecConcurrent == InitConcurrent /\ [][NextConcurrent]_vars

\* C36: for every interleaving of the phases of concurrent runs, what a run
\* persists is what it makes of its own request and of the replies to its own
\* calls when it runs alone; the runs share the cache of the literature client
\* only.
C36_RunsDoNotInterfere ==
    \A r \in RunIds :
        concurrent.documents[r] # NoValue =>
            concurrent.documents[r] =
                [title |-> concurrent.request[r].title,
                 context |-> AloneContext(r, concurrent.request[r], Len(ModelPhases))]

\* Both runs have persisted, the second having been answered from the cache
\* entry the first one fetched, while their phases interleaved.
C36_Witness ==
    /\ \A r \in RunIds : concurrent.documents[r] # NoValue
    /\ concurrent.request[1] = concurrent.request[2]
    /\ concurrent.cache = {[query |-> concurrent.request[1].title, order |-> "sorted",
                            by |-> 1]}
    /\ concurrent.documents[1].context.qualityScore.by = 1
    /\ concurrent.documents[2].context.qualityScore.by = 2

\* ------------------------------------------------- cancel against completion
\* C37: a job that has been written completed is never afterwards changed to
\* failed by a cancel request: for every interleaving of the read and the
\* write of generation.cancel with the completion write of the run, no cancel
\* request writes to a job that is completed.
C37_CancelSparesCompleted ==
    [][CancelWrites => job.status # "completed" /\ job'.status = "failed"]_vars

\* ------------------------------------------------------ failures in the queue
\* fetch ends and timers fire: each step of a request that is due is taken.
\* Two requests of a client with its credential, one retry each.
InitQueue ==
    /\ NoRun
    /\ calc = NoCall
    /\ gw = NoInvoke
    /\ rev = NoRevision
    /\ concurrent = NoConcurrent
    /\ \E cacheTtlMs \in {0, DEFAULT_CACHE_TTL_MS} :
           lit = FreshClient(ClientEnv(TRUE, cacheTtlMs, 1, FALSE), BasicAnswers, 2)

FairLiterature ==
    /\ InitQueue
    /\ [][NextLiterature]_vars
    /\ \A r \in 1..MaxRequests :
           /\ WF_vars(Run(r))
           /\ WF_vars(IntervalOver(r))
           /\ WF_vars(Response(r))
           /\ WF_vars(BackoffOver(r))

SettledRequest(r) == lit.reqs[r].pc \in {"returned", "thrown"}

\* C38: a literature request that throws does not block the queue: every
\* enqueued request eventually settles, whatever became of the requests ahead
\* of it, and the step in which a request throws changes no other request; an
\* error is held by a request that threw only.
C38_FailureDoesNotBlockQueue ==
    /\ \A r \in 1..MaxRequests : (lit.reqs[r].pc = "queued") ~> SettledRequest(r)
    /\ [](\A r \in 1..MaxRequests : lit.reqs[r].error # "" => lit.reqs[r].pc = "thrown")
    /\ [][\A r \in 1..MaxRequests :
             (lit.reqs[r].pc # "thrown" /\ lit'.reqs[r].pc = "thrown") =>
                 (\A q \in 1..MaxRequests \ {r} : lit'.reqs[q] = lit.reqs[q])]_vars

\* The first request threw after a call of its own; the second, enqueued
\* behind it while it was in flight, made its call and returned.
C38_Witness ==
    /\ lit.enqueued = <<1, 2>>
    /\ lit.started = <<1, 2>>
    /\ lit.reqs[2].at = lit.reqs[1].at
    /\ lit.reqs[1].pc = "thrown"
    /\ lit.reqs[1].calls >= 1
    /\ lit.reqs[2].pc = "returned"
    /\ lit.reqs[2].calls >= 1
    /\ lit.reqs[2].error = ""
    /\ lit.chain = <<>>

\* ------------------------------------------------------- progress over a run
\* C39: within one run that is not cancelled, no write to the job record, from
\* the first progress update through the terminal write, lowers
\* progressPercentage.
C39_ProgressNeverDecreases ==
    [][(~cancelled' /\ job' # job) =>
           job'.progressPercentage >= job.progressPercentage]_vars

\* A run no cancel request touched has gone through every progress update to
\* its completion write.
C39_Witness ==
    /\ ~cancelled
    /\ \A c \in 1..MaxCancels : cancel[c] = "idle"
    /\ termWrite = "completed"
    /\ job.status = "completed"
    /\ job.currentPhase = "Final Assembly"
    /\ job.progressPercentage = 100

\* --------------------------------------------------- repeated normalization
\* Section Writing, Final Assembly and the length adjustment each normalize
\* the text they are given, with the same number of keys.
MaxPasses == 3

InitRenormalize ==
    /\ NoRun
    /\ gw = NoInvoke
    /\ rev = NoRevision
    /\ lit = NoLiterature
    /\ concurrent = NoConcurrent
    /\ \E markdown \in SeqsUpTo({W, Ref(1), Ref(MaxRefs + 1)}
                                   \cup {Num(n) : n \in MarkerNumbers}, MaxTokens),
          maxRef \in KeyCounts :
           calc = [fn |-> "normalizeCitationKeys again", markdown |-> markdown,
                   maxRef |-> maxRef, passes |-> 0, before |-> markdown,
                   result |-> markdown]

\* normalizeCitationKeys is applied to the text as the pass before left it.
Renormalize ==
    /\ calc.fn = "normalizeCitationKeys again"
    /\ calc.passes < MaxPasses
    /\ calc' = [calc EXCEPT !.passes = @ + 1,
                            !.before = calc.result,
                            !.result = normalizeCitationKeys(calc.result, calc.maxRef)]
    /\ UNCHANGED <<jobVars, gw, rev, lit, concurrent>>

NextRenormalize == Renormalize
SpecRenormalize == InitRenormalize /\ [][NextRenormalize]_vars

\* C40: for a fixed number of keys, normalizeCitationKeys applied to its own
\* output changes nothing, and it never alters a marker that is in [refN]
\* form.
C40_NormalizeIsIdempotent ==
    /\ calc.passes >= 2 => calc.result = calc.before
    /\ \A i \in 1..Len(calc.before) :
           calc.before[i].t = "ref" => calc.result[i] = calc.before[i]

\* A second pass over a text in which the first pass rewrote a number and
\* left alone a number beyond the keys and a marker written by the model.
C40_Witness ==
    /\ calc.passes = 2
    /\ calc.maxRef = MaxRefs
    /\ calc.markdown = <<Num(1), Num(MaxRefs + 1), Ref(MaxRefs + 1)>>
    /\ calc.result = <<Ref(1), Num(MaxRefs + 1), Ref(MaxRefs + 1)>>

====
